---- MODULE Spec2Model ----
(***************************************************************************)
(* Polaris GSLB: the health tracker (polaris_health.tracker), the state    *)
(* publisher (StatePusher), the shared memory (memcached) keys, the state  *)
(* subscriber (polaris_pdns StateUpdater) and the PowerDNS remote backend  *)
(* lookup handler (polaris_pdns Polaris).                                  *)
(*                                                                         *)
(* Modelling conventions                                                   *)
(*  - Python None is the string "None"; a member status (None/True/False)  *)
(*    is one of UNKNOWN/UP/DOWN; a pool status (a bool) is a BOOLEAN.      *)
(*  - IPv4 addresses are the integers of AddrSpace, a network is a record  *)
(*    [base, prefixlen] and contains the addresses sharing its prefix.     *)
(*  - A DNS name is a sequence of one-character strings.                   *)
(*  - time.time() is a clock that is read as a fresh, larger value at      *)
(*    every member status change; STATE_TIMESTAMP holds the last reading.  *)
(***************************************************************************)
EXTENDS Integers, Sequences, FiniteSets, TLC

VARIABLES
    cfg,              \* config.LB : the load balancing configuration
    health_STATE,     \* polaris_health.tracker.STATE (state.State object)
    STATE_TIMESTAMP,  \* polaris_health.tracker.STATE_TIMESTAMP
    probes,           \* probes requested and not yet processed, per member
    pusher,           \* StatePusher: position in run/push_states and locals
    sm,               \* shared memory: the three memcached keys
    updater,          \* StateUpdater: position in update_state and locals
    pdns_STATE,       \* polaris_pdns.core.polaris.STATE
    pdns_STATE_TS,    \* polaris_pdns.core.polaris.STATE_TS
    response,         \* last lookup request read by the backend and its reply
    loop,             \* RemoteBackend.__main_loop: running or ended, and the
                      \* lines read and responses written so far
    fails,            \* history: consecutive failed results per member
    window,           \* history: addresses served by consecutive A lookups
    read_failed,      \* history: the last read of the state updater failed
    prober,           \* ProberProcess: its thread queues and ProberThreads
    guardian,         \* Guardian: position in start, and the child processes
    sched             \* the clock of the tracker: monitor.interval, and per
                      \* member the time since its last_probe_issued_time

vars == <<cfg, health_STATE, STATE_TIMESTAMP, probes, pusher, sm, updater,
          pdns_STATE, pdns_STATE_TS, response, loop, fails, window,
          read_failed, prober, guardian, sched>>

None == "None"
\* None where the other values are numbers or dicts, and such a value
NoValue == [ none |-> TRUE ]
Value(v) == [ value |-> v ]
UP == "UP"
DOWN == "DOWN"
UNKNOWN == "UNKNOWN"

----------------------------------------------------------------------------
(* Bounds of the model *)

\* largest monitor.retries of a configuration (the code allows 0..5)
MaxRetries == 2
\* number of member status changes (clock readings) in a behaviour
MaxTime == 3
\* probes of one member that may be outstanding at the same time
MaxPending == 1
\* lines the backend reads from PowerDNS in a behaviour
MaxLines == 3
\* probe requests the prober process reads in a behaviour
MaxProbes == 3
\* requests and poison pills waiting on the thread requests queue
MaxQueue == 2
\* config.BASE['NUM_PROBERS'] : prober processes the guardian starts
NUM_PROBERS == 2
\* SIGTERMs sent to the guardian in a behaviour
MaxSignals == 1
\* largest monitor.interval of a configuration, in ticks of the clock
MaxInterval == 2
\* probes of one member outstanding at the same time, where the clock of
\* the tracker is part of the model
MaxOutstanding == 2

\* polaris_health.prober, scaled down: threads ProberProcess.run starts,
\* the most it runs, and the number of idle ones at which it ends some
INITIAL_PROBER_THREADS == 1
MAX_PROBER_THREADS == 2
EXCESSIVE_THREADS_THRESHOLD == 2

\* polaris_health.guardian
MAX_TERMINATE_ATTEMPTS == 5

\* polaris_health.monitors : the smallest monitor.interval allowed
MIN_INTERVAL == 1

\* the child processes of the guardian: the tracker and the probers
Processes == 0..NUM_PROBERS

\* the ProberThread objects a prober process may create: one more than it
\* is to run at a time
ThreadIds == 1..(MAX_PROBER_THREADS + 1)

----------------------------------------------------------------------------
(* Generic helpers *)

Min(a, b) == IF a <= b THEN a ELSE b

Range(s) == { s[i] : i \in 1..Len(s) }

\* a variant of the repetition below that ignores the count
Repeat_single(x, n) == << x >>

\* [x] * n
Repeat(x, n) == [ i \in 1..n |-> x ]

\* number of positions of s holding x
Count(s, x) == Cardinality({ i \in 1..Len(s) : s[i] = x })

\* s and t hold the same elements with the same multiplicities
SameMultiset(s, t) ==
    /\ Len(s) = Len(t)
    /\ \A x \in Range(s) \cup Range(t) : Count(s, x) = Count(t, x)

\* all orderings of the elements of s
Shuffles(s) ==
    { t \in [ 1..Len(s) -> Range(s) ] : SameMultiset(s, t) }

----------------------------------------------------------------------------
(* polaris_common.topology *)

AddrSpace == 0..7

\* number of addresses in a network of the given prefix length (3 bit space)
BlockSize(prefixlen) == <<8, 4, 2, 1>>[prefixlen + 1]

Net(base, prefixlen) == [ base |-> base, prefixlen |-> prefixlen ]

\* "ip in net" of the ipaddress module
IpInNet(ip, net) ==
    ip \div BlockSize(net.prefixlen) = net.base \div BlockSize(net.prefixlen)

\* config.TOPOLOGY_MAP: 0..3 is region "us", the more specific 0..1 is "eu"
TOPOLOGY_MAP ==
    [ net \in { Net(0, 1), Net(0, 2) } |->
        IF net.prefixlen = 1 THEN "us" ELSE "eu" ]

get_region(ip, topology_map) ==
    LET matches == { net \in DOMAIN topology_map : IpInNet(ip, net) }
    IN  IF matches = {} THEN None
        ELSE topology_map[CHOOSE n \in matches :
                            \A k \in matches : k.prefixlen <= n.prefixlen]

----------------------------------------------------------------------------
(* Configurations *)

Member(ip, name, weight) == [ ip |-> ip, name |-> name, weight |-> weight ]

PoolCfg(retries, lb_method, fallback, max_addrs_returned, members) ==
    [ monitor |-> [ retries |-> retries ], lb_method |-> lb_method,
      fallback |-> fallback, max_addrs_returned |-> max_addrs_returned,
      members |-> members ]

GlobalNameCfg(pool, ttl) == [ pool |-> pool, ttl |-> ttl ]

\* globalnames "a" (ttl 1) and "b" (ttl 2), both served by pool p1
GlobalNamesCfg ==
    [ n \in { <<"a">>, <<"b">> } |->
        IF n = <<"a">> THEN GlobalNameCfg("p1", 1) ELSE GlobalNameCfg("p1", 2) ]

----------------------------------------------------------------------------
(* polaris_health.state : the health state table *)

\* PoolMember.__init__, with the region Pool.from_config_dict resolves for
\* it and the retries_left State.__init__ gives it
PoolMember(m, lb_method, retries) ==
    [ ip |-> m.ip, name |-> m.name, weight |-> m.weight,
      region |-> IF lb_method = "twrr"
                 THEN get_region(m.ip, TOPOLOGY_MAP) ELSE None,
      status |-> UNKNOWN,
      status_reason |-> None,
      last_probe_issued_time |-> None,
      retries_left |-> retries ]

\* Pool.from_config_dict / Pool.__init__
Pool(name, obj) ==
    [ name |-> name,
      monitor |-> obj.monitor,
      lb_method |-> obj.lb_method,
      fallback |-> obj.fallback,
      max_addrs_returned |-> obj.max_addrs_returned,
      last_status |-> UNKNOWN,
      members |-> [ i \in 1..Len(obj.members) |->
                      PoolMember(obj.members[i], obj.lb_method,
                                 obj.monitor.retries) ] ]

\* GlobalName.from_config_dict
GlobalName(name, obj) ==
    [ name |-> name, pool_name |-> obj.pool, ttl |-> obj.ttl,
      nsrecord |-> FALSE ]

\* State.__init__
State(config_obj) ==
    [ pools |-> [ n \in DOMAIN config_obj.pools |->
                    Pool(n, config_obj.pools[n]) ],
      globalnames |-> [ g \in DOMAIN config_obj.globalnames |->
                          GlobalName(g, config_obj.globalnames[g]) ] ]

\* the members of the state, as <<pool name, position in pool.members>>
MemberIds(S) ==
    UNION { { <<n, i>> : i \in 1..Len(S.pools[n].members) } :
            n \in DOMAIN S.pools }

\* Pool.status : some member with a non-0 weight is UP
PoolStatus(pool) ==
    \E i \in 1..Len(pool.members) :
        pool.members[i].weight > 0 /\ pool.members[i].status = UP

\* State.health_converged on the list of all members State.__init__ builds
\* (pools in order, members in order): the first member of the list that
\* is still undetermined decides
RECURSIVE StatusDetermined(_, _)
StatusDetermined(S, undetermined) ==
    IF undetermined = <<>> THEN TRUE
    ELSE IF S.pools[Head(undetermined)[1]].members[Head(undetermined)[2]].status
              = UNKNOWN
         THEN FALSE
         ELSE StatusDetermined(S, Tail(undetermined))

RECURSIVE AllMembers(_, _)
AllMembers(S, pool_names) ==
    IF pool_names = <<>> THEN <<>>
    ELSE [ i \in 1..Len(S.pools[Head(pool_names)].members) |->
             <<Head(pool_names), i>> ]
         \o AllMembers(S, Tail(pool_names))

health_converged(S) ==
    StatusDetermined(S, AllMembers(S, cfg.pool_names))

----------------------------------------------------------------------------
(* polaris_health.tracker.Tracker *)

BoolStatus(b) == IF b THEN UP ELSE DOWN

\* Probe after Probe.run: status True with "monitor passed", or False with
\* the text of the exception
Probe(pool_name, member_ip, status, status_reason) ==
    [ pool_name |-> pool_name, member_ip |-> member_ip,
      status |-> status, status_reason |-> status_reason ]

FailReasons == { "timeout", "refused" }

\* position in pool.members of the member with the given IP
MemberIndex(pool, ip) ==
    CHOOSE i \in 1..Len(pool.members) : pool.members[i].ip = ip

\* a variant of the step below that records the status of the pool only
\* once it has been recorded before
change_pool_last_status_known_only(pool) ==
    IF pool.last_status # UNKNOWN
         /\ pool.last_status # BoolStatus(PoolStatus(pool))
    THEN [ pool EXCEPT !.last_status = BoolStatus(PoolStatus(pool)) ]
    ELSE pool

\* Tracker._change_pool_last_status
change_pool_last_status(pool) ==
    IF pool.last_status # BoolStatus(PoolStatus(pool))
    THEN [ pool EXCEPT !.last_status = BoolStatus(PoolStatus(pool)) ]
    ELSE pool

\* variants of the two steps below that lose the hysteresis: a success that
\* leaves retries_left as it is, and a failure that gives up one retry early
reset_retries_left_skipped(member, pool) == member

more_retries_left_short(member) == member.retries_left > 1

more_retries_left_always(member) == TRUE

\* _process_probe, probe success: reset the value of retries left to the
\* parent's pool value
reset_retries_left(member, pool) ==
    [ member EXCEPT !.retries_left = pool.monitor.retries ]

\* _process_probe, probe failed: more retries left?
more_retries_left(member) == member.retries_left > 0

\* Tracker._process_probe: the state and the state timestamp after the probe
\* result is applied; now is the value time.time() returns
process_probe(S, TS, probe, now) ==
    LET pool == S.pools[probe.pool_name]
        i == MemberIndex(pool, probe.member_ip)
        member == [ pool.members[i] EXCEPT
                      !.status_reason = probe.status_reason ]
        Put(m) == [ S EXCEPT !.pools[probe.pool_name].members[i] = m ]
        Changed(m) ==
            [ state |->
                [ Put(m) EXCEPT !.pools[probe.pool_name] =
                    change_pool_last_status(Put(m).pools[probe.pool_name]) ],
              timestamp |-> now ]
        Same(m) == [ state |-> Put(m), timestamp |-> TS ]
    IN  IF probe.status
        THEN LET reset == reset_retries_left(member, pool)
             IN  IF reset.status = UP
                 THEN Same(reset)
                 ELSE Changed([ reset EXCEPT !.status = UP ])
        ELSE IF member.status = UP \/ member.status = UNKNOWN
             THEN IF more_retries_left(member)
                  THEN Same([ member EXCEPT
                                !.retries_left = member.retries_left - 1 ])
                  ELSE Changed([ member EXCEPT !.status = DOWN ])
             ELSE Same(member)

\* a variant of the step below that forgets the status of the member when a
\* probe is requested for it
request_probe_status_reset(pool, member, request) ==
    LET first == [ member EXCEPT !.retries_left = pool.monitor.retries ]
        m == IF member.last_probe_issued_time = None THEN first ELSE member
    IN  IF request
        THEN [ m EXCEPT !.last_probe_issued_time = "issued",
                        !.status = UNKNOWN ]
        ELSE m

\* Tracker._request_probe on one member: the member after a probe was
\* requested for it (request) or not
request_probe(pool, member, request) ==
    LET first == [ member EXCEPT !.retries_left = pool.monitor.retries ]
        m == IF member.last_probe_issued_time = None THEN first ELSE member
    IN  IF request THEN [ m EXCEPT !.last_probe_issued_time = "issued" ]
        ELSE m

----------------------------------------------------------------------------
(* polaris_health.state : the distribution form of the state *)

EmptyDict == [ x \in {} |-> x ]

\* a variant of the loop below that does not look at the member status
RECURSIVE AddUpMembers_any_status(_, _, _)
AddUpMembers_any_status(pool, i, dist_tables) ==
    IF i > Len(pool.members) THEN dist_tables
    ELSE
    LET member == pool.members[i]
        d1 == [ dist_tables EXCEPT
                  !["_default"].rotation =
                      @ \o Repeat(member.ip, member.weight),
                  !["_default"].names =
                      @ \o Repeat(member.name, member.weight),
                  !["_default"].num_unique_addrs = @ + 1 ]
        d2 == IF member.region \in DOMAIN d1 THEN d1
              ELSE (member.region :>
                      [ rotation |-> <<>>, num_unique_addrs |-> 0 ]) @@ d1
        d3 == [ d2 EXCEPT
                  ![member.region].rotation =
                      @ \o Repeat(member.ip, member.weight),
                  ![member.region].num_unique_addrs = @ + 1 ]
    IN  IF member.weight = 0
        THEN AddUpMembers_any_status(pool, i + 1, dist_tables)
        ELSE IF pool.lb_method = "fogroup" THEN d1
        ELSE IF pool.lb_method = "twrr"
        THEN AddUpMembers_any_status(pool, i + 1, d3)
        ELSE AddUpMembers_any_status(pool, i + 1, d1)

\* a variant of the loop below that goes on after the first member of a
\* failover group
RECURSIVE AddUpMembers_no_break(_, _, _)
AddUpMembers_no_break(pool, i, dist_tables) ==
    IF i > Len(pool.members) THEN dist_tables
    ELSE
    LET member == pool.members[i]
        d1 == [ dist_tables EXCEPT
                  !["_default"].rotation =
                      @ \o Repeat(member.ip, member.weight),
                  !["_default"].names =
                      @ \o Repeat(member.name, member.weight),
                  !["_default"].num_unique_addrs = @ + 1 ]
        d2 == IF member.region \in DOMAIN d1 THEN d1
              ELSE (member.region :>
                      [ rotation |-> <<>>, num_unique_addrs |-> 0 ]) @@ d1
        d3 == [ d2 EXCEPT
                  ![member.region].rotation =
                      @ \o Repeat(member.ip, member.weight),
                  ![member.region].num_unique_addrs = @ + 1 ]
    IN  IF member.weight = 0
        THEN AddUpMembers_no_break(pool, i + 1, dist_tables)
        ELSE IF member.status # UP
        THEN AddUpMembers_no_break(pool, i + 1, dist_tables)
        ELSE IF pool.lb_method = "twrr"
        THEN AddUpMembers_no_break(pool, i + 1, d3)
        ELSE AddUpMembers_no_break(pool, i + 1, d1)

\* the pool is UP: the loop over pool.members from position i on, adding to
\* the tables built so far
RECURSIVE AddUpMembers(_, _, _)
AddUpMembers(pool, i, dist_tables) ==
    IF i > Len(pool.members) THEN dist_tables
    ELSE
    LET member == pool.members[i]
        d1 == [ dist_tables EXCEPT
                  !["_default"].rotation =
                      @ \o Repeat(member.ip, member.weight),
                  !["_default"].names =
                      @ \o Repeat(member.name, member.weight),
                  !["_default"].num_unique_addrs = @ + 1 ]
        d2 == IF member.region \in DOMAIN d1 THEN d1
              ELSE (member.region :>
                      [ rotation |-> <<>>, num_unique_addrs |-> 0 ]) @@ d1
        d3 == [ d2 EXCEPT
                  ![member.region].rotation =
                      @ \o Repeat(member.ip, member.weight),
                  ![member.region].num_unique_addrs = @ + 1 ]
    IN  IF member.weight = 0 THEN AddUpMembers(pool, i + 1, dist_tables)
        ELSE IF member.status # UP THEN AddUpMembers(pool, i + 1, dist_tables)
        ELSE IF pool.lb_method = "fogroup" THEN d1
        ELSE IF pool.lb_method = "twrr" THEN AddUpMembers(pool, i + 1, d3)
        ELSE AddUpMembers(pool, i + 1, d1)

\* a variant of the loop below that skips no member and lists every member
\* once more than its weight
RECURSIVE AddDownMembers_every_member(_, _, _)
AddDownMembers_every_member(pool, i, dist_tables) ==
    IF i > Len(pool.members) THEN dist_tables
    ELSE
    LET member == pool.members[i]
        d1 == [ dist_tables EXCEPT
                  !["_default"].rotation =
                      @ \o Repeat(member.ip, member.weight + 1),
                  !["_default"].num_unique_addrs = @ + 1 ]
    IN  IF pool.fallback = "any"
        THEN AddDownMembers_every_member(pool, i + 1, d1)
        ELSE AddDownMembers_every_member(pool, i + 1, dist_tables)

\* a variant of the loop below that does not skip the members of weight 0
RECURSIVE AddDownMembers_count_disabled(_, _, _)
AddDownMembers_count_disabled(pool, i, dist_tables) ==
    IF i > Len(pool.members) THEN dist_tables
    ELSE
    LET member == pool.members[i]
        d1 == [ dist_tables EXCEPT
                  !["_default"].rotation =
                      @ \o Repeat(member.ip, member.weight),
                  !["_default"].num_unique_addrs = @ + 1 ]
    IN  IF pool.fallback = "any"
        THEN AddDownMembers_count_disabled(pool, i + 1, d1)
        ELSE AddDownMembers_count_disabled(pool, i + 1, dist_tables)

\* a variant of the loop below that adds no member whatever the fallback
AddDownMembers_refuse_always(pool, i, dist_tables) == dist_tables

\* the pool is DOWN: the loop over pool.members from position i on
RECURSIVE AddDownMembers(_, _, _)
AddDownMembers(pool, i, dist_tables) ==
    IF i > Len(pool.members) THEN dist_tables
    ELSE
    LET member == pool.members[i]
        d1 == [ dist_tables EXCEPT
                  !["_default"].rotation =
                      @ \o Repeat(member.ip, member.weight),
                  !["_default"].num_unique_addrs = @ + 1 ]
    IN  IF member.weight = 0 THEN AddDownMembers(pool, i + 1, dist_tables)
        ELSE IF pool.fallback = "any" THEN AddDownMembers(pool, i + 1, d1)
        ELSE AddDownMembers(pool, i + 1, dist_tables)

\* Pool.to_dist_dict up to the post tables creation tasks
BuildDistTables(pool) ==
    LET start == "_default" :>
                   [ rotation |-> <<>>, names |-> <<>>,
                     num_unique_addrs |-> 0 ]
    IN  IF PoolStatus(pool) THEN AddUpMembers(pool, 1, start)
        ELSE AddDownMembers(pool, 1, start)

\* a variant of the choice below that may give the length of the rotation
RandomIndexes_upto(n) == 0..n

\* int(random.random() * n)
RandomIndexes(n) == IF n = 0 THEN { 0 } ELSE 0..(n - 1)

\* post tables creation tasks on one table: random.shuffle of the rotation
\* and a random index
FinishTable(table) ==
    { ("index" :> k) @@ [ table EXCEPT !.rotation = r ] :
        r \in Shuffles(table.rotation),
        k \in RandomIndexes(Len(table.rotation)) }

\* the functions f on the set of names with f[n] \in choices[n]
RECURSIVE Product(_, _)
Product(names, choices) ==
    IF names = {} THEN { EmptyDict }
    ELSE LET n == CHOOSE x \in names : TRUE
         IN  { (n :> c) @@ rest :
                 c \in choices[n], rest \in Product(names \ { n }, choices) }

\* Pool.to_dist_dict: every dict the random choices can produce
PoolToDistDict(pool) ==
    LET built == BuildDistTables(pool)
    IN  { [ status |-> PoolStatus(pool),
            lb_method |-> pool.lb_method,
            fallback |-> pool.fallback,
            max_addrs_returned |-> pool.max_addrs_returned,
            dist_tables |-> t ] :
          t \in Product(DOMAIN built,
                        [ n \in DOMAIN built |-> FinishTable(built[n]) ]) }

\* util.instance_to_dict(STATE), the generic form of the state: a dump that
\* no operation of the model reads, kept as the number of its pools
instance_to_dict(S) == [ pools |-> Cardinality(DOMAIN S.pools) ]

\* GlobalName.to_dist_dict
GlobalNameToDistDict(g) ==
    [ pool_name |-> g.pool_name, ttl |-> g.ttl, nsrecord |-> g.nsrecord ]

\* State.to_dist_dict: every dict the random choices can produce; now is
\* the value time.time() returns
to_dist_dict(S, now) ==
    { [ timestamp |-> now,
        pools |-> p,
        globalnames |-> [ g \in DOMAIN S.globalnames |->
                            GlobalNameToDistDict(S.globalnames[g]) ] ] :
      p \in Product(DOMAIN S.pools,
                    [ n \in DOMAIN S.pools |-> PoolToDistDict(S.pools[n]) ]) }

----------------------------------------------------------------------------
(* polaris_pdns.core.polaris.StateUpdater *)

\* a variant of the loop body below that copies the old index without
\* comparing it to the length of the new rotation
SyncPoolIndex_unclamped(old_state_pools, new_state, pool_name) ==
    IF pool_name \in DOMAIN old_state_pools
    THEN [ new_state EXCEPT
             !.pools[pool_name].dist_tables["_default"].index =
                 old_state_pools[pool_name].dist_tables["_default"].index ]
    ELSE new_state

\* the body of the loop of sync_dist_table_indexes for one pool name
SyncPoolIndex(old_state_pools, new_state, pool_name) ==
    IF pool_name \in DOMAIN old_state_pools
    THEN LET old_dist_table ==
                 old_state_pools[pool_name].dist_tables["_default"]
             new_dist_table ==
                 new_state.pools[pool_name].dist_tables["_default"]
         IN  IF old_dist_table.index # new_dist_table.index
             THEN IF old_dist_table.index >= Len(new_dist_table.rotation)
                  THEN [ new_state EXCEPT
                           !.pools[pool_name].dist_tables["_default"].index
                               = 0 ]
                  ELSE [ new_state EXCEPT
                           !.pools[pool_name].dist_tables["_default"].index
                               = old_dist_table.index ]
             ELSE new_state
    ELSE new_state

\* the loop of sync_dist_table_indexes over the given globalnames
RECURSIVE SyncGlobalNames(_, _, _)
SyncGlobalNames(old_state_pools, new_state, names) ==
    IF names = {} THEN new_state
    ELSE LET g == CHOOSE x \in names : TRUE
         IN  SyncGlobalNames(
                 old_state_pools,
                 SyncPoolIndex(old_state_pools, new_state,
                               new_state.globalnames[g].pool_name),
                 names \ { g })

\* StateUpdater.sync_dist_table_indexes
sync_dist_table_indexes(old_state, new_state) ==
    LET old_state_pools ==
            IF "pools" \in DOMAIN old_state THEN old_state.pools
            ELSE EmptyDict
    IN  SyncGlobalNames(old_state_pools, new_state,
                        DOMAIN new_state.globalnames)

----------------------------------------------------------------------------
(* polaris_pdns.core.polaris.Polaris : the lookup handler *)

SOA_SERIAL == 1
SOA_TTL == 86400

\* str.lower on one character
Lower(c) == IF c = "A" THEN "a" ELSE IF c = "B" THEN "b" ELSE c

\* str.rstrip('.')
RECURSIVE RStripDots(_)
RStripDots(name) ==
    IF name # <<>> /\ name[Len(name)] = "."
    THEN RStripDots(SubSeq(name, 1, Len(name) - 1))
    ELSE name

\* params['qname'].rstrip('.').lower()
NormalizeQname(name) ==
    [ i \in 1..Len(RStripDots(name)) |-> Lower(RStripDots(name)[i]) ]

\* RemoteBackend.add_record
Record(qtype, qname, content, ttl) ==
    [ qtype |-> qtype, qname |-> qname, content |-> content, ttl |-> ttl ]

\* self.result False; a result that is a list of records is never empty
ResultFalse == << >>

\* the reply of a handler: the result, the state it leaves and the name
\* of the distribution table it logged as used
Reply(result, S, table) == [ result |-> result, state |-> S, table |-> table ]

\* a variant of the loop below that wraps the index one position late
RECURSIVE AddRecords_late_wrap(_, _, _, _, _, _, _)
AddRecords_late_wrap(S, pool_name, table, n, records, params, ttl) ==
    LET dist_table == S.pools[pool_name].dist_tables[table]
        index == dist_table.index + 1
        next == IF index > Len(dist_table.rotation) THEN 0 ELSE index
    IN  IF n = 0 THEN Reply(records, S, table)
        ELSE IF dist_table.index >= Len(dist_table.rotation)
        THEN Reply(ResultFalse, S, table)
        ELSE AddRecords_late_wrap(
                 [ S EXCEPT
                     !.pools[pool_name].dist_tables[table].index = next ],
                 pool_name, table, n - 1,
                 Append(records,
                        Record("A", params.qname,
                               dist_table.rotation[dist_table.index + 1],
                               ttl)),
                 params, ttl)

\* the loop of _any_response adding n records; reading the rotation out of
\* range raises IndexError, which the main loop answers with result False
RECURSIVE AddRecords(_, _, _, _, _, _, _)
AddRecords(S, pool_name, table, n, records, params, ttl) ==
    LET dist_table == S.pools[pool_name].dist_tables[table]
        index == dist_table.index + 1
        next == IF index >= Len(dist_table.rotation) THEN 0 ELSE index
    IN  IF n = 0 THEN Reply(records, S, table)
        ELSE IF dist_table.index >= Len(dist_table.rotation)
        THEN Reply(ResultFalse, S, table)
        ELSE AddRecords(
                 [ S EXCEPT
                     !.pools[pool_name].dist_tables[table].index = next ],
                 pool_name, table, n - 1,
                 Append(records,
                        Record("A", params.qname,
                               dist_table.rotation[dist_table.index + 1],
                               ttl)),
                 params, ttl)

\* a variant of the choice below that never looks at the client's region
ChooseDistTable_default(pool, params) == "_default"

\* the name of the distribution table _any_response takes the records from
ChooseDistTable(pool, params) ==
    IF pool.status /\ pool.lb_method = "twrr"
       /\ get_region(params.remote, TOPOLOGY_MAP) \in DOMAIN pool.dist_tables
    THEN get_region(params.remote, TOPOLOGY_MAP)
    ELSE "_default"

\* a variant of the count below that ignores num_unique_addrs
NumRecordsReturn_max(dist_table, pool) == pool.max_addrs_returned

\* the number of records _any_response returns
NumRecordsReturn(dist_table, pool) ==
    IF dist_table.num_unique_addrs <= pool.max_addrs_returned
    THEN dist_table.num_unique_addrs
    ELSE pool.max_addrs_returned

\* Polaris._any_response
any_response(S, params, qname) ==
    LET pool_name == S.globalnames[qname].pool_name
        pool == S.pools[pool_name]
        table == ChooseDistTable(pool, params)
        num_records_return == NumRecordsReturn(pool.dist_tables[table], pool)
    IN  IF ~pool.status /\ pool.fallback = "refuse"
        THEN Reply(ResultFalse, S, None)
        ELSE IF num_records_return = 0
        THEN Reply(ResultFalse, S, table)
        ELSE AddRecords(S, pool_name, table, num_records_return, <<>>,
                        params, S.globalnames[qname].ttl)

\* a variant of _soa_response that does not look at the pool
soa_response_always(S, params, qname) ==
    Reply(<< Record("SOA", params.qname, [ serial |-> SOA_SERIAL ],
                    SOA_TTL) >>,
          S, None)

\* Polaris._soa_response
soa_response(S, params, qname) ==
    LET pool == S.pools[S.globalnames[qname].pool_name]
    IN  IF ~pool.status /\ pool.fallback = "refuse"
        THEN Reply(ResultFalse, S, None)
        ELSE Reply(<< Record("SOA", params.qname,
                             [ serial |-> SOA_SERIAL ], SOA_TTL) >>,
                   S, None)

\* a variant of do_lookup that answers a name it does not know from the
\* globalname "a"
do_lookup_catch_all(S, params) ==
    LET qname == NormalizeQname(params.qname)
        known == IF qname \in DOMAIN S.globalnames THEN qname ELSE <<"a">>
    IN  IF "globalnames" \notin DOMAIN S THEN Reply(ResultFalse, S, None)
        ELSE IF params.qtype = "ANY" \/ params.qtype = "A"
        THEN any_response(S, params, known)
        ELSE IF params.qtype = "SOA" THEN soa_response(S, params, known)
        ELSE Reply(ResultFalse, S, None)

\* Polaris.do_lookup as run by RemoteBackend.__main_loop: a state without
\* 'globalnames' raises KeyError, which the main loop answers with False
do_lookup(S, params) ==
    LET qname == NormalizeQname(params.qname)
    IN  IF "globalnames" \notin DOMAIN S THEN Reply(ResultFalse, S, None)
        ELSE IF qname \notin DOMAIN S.globalnames THEN Reply(ResultFalse, S, None)
        ELSE IF params.qtype = "ANY" \/ params.qtype = "A"
        THEN any_response(S, params, qname)
        ELSE IF params.qtype = "SOA" THEN soa_response(S, params, qname)
        ELSE Reply(ResultFalse, S, None)

----------------------------------------------------------------------------
(* Initial states *)

\* pool p1: member s1 (10.. region eu) and member s2 (region us)
Pool1Cfg(retries, lb_method, fallback, max_addrs_returned, w1, w2) ==
    PoolCfg(retries, lb_method, fallback, max_addrs_returned,
            << Member(1, "s1", w1), Member(2, "s2", w2) >>)

\* pool p2, which no globalname refers to: one member of weight 2
Pool2Cfg == PoolCfg(0, "wrr", "any", 1, << Member(6, "s3", 2) >>)

OnePool(p1) ==
    [ pools |-> ("p1" :> p1), pool_names |-> << "p1" >>,
      globalnames |-> GlobalNamesCfg ]

TwoPools(p1) ==
    [ pools |-> ("p1" :> p1) @@ ("p2" :> Pool2Cfg),
      pool_names |-> << "p1", "p2" >>,
      globalnames |-> GlobalNamesCfg ]

\* ProberProcess.__init__ and the initial threads ProberProcess.run spins;
\* listed is self._threads
ProberProcess ==
    [ thread_requests |-> << >>,
      thread_responses |-> << >>,
      prober_responses |-> << >>,
      threads |-> [ t \in ThreadIds |->
                      [ pc |-> IF t <= INITIAL_PROBER_THREADS
                               THEN "get" ELSE "unstarted",
                        probe |-> NoValue ] ],
      listed |-> 1..INITIAL_PROBER_THREADS,
      threads_busy |-> 0,
      max_busy_threads |-> 0,
      requests |-> 0 ]

\* Guardian.start up to the call of _control_loop: the tracker and the
\* prober processes are started, no termination was asked for
Guardian ==
    [ pc |-> "accept", i |-> 0, then |-> None,
      processes |-> [ p \in Processes |-> "alive" ],
      procs_started |-> Cardinality(Processes),
      stop |-> FALSE, signals |-> 0 ]

\* no run of A lookups is being followed
NoWindow == [ qname |-> << >>, table |-> None, served |-> << >> ]

\* the state of both processes after start, for the configuration c
InitWithInterval(c, interval) ==
    /\ cfg = c
    /\ health_STATE = State(c)
    /\ STATE_TIMESTAMP = 0
    /\ probes = [ id \in MemberIds(State(c)) |-> 0 ]
    /\ pusher = [ pc |-> "run", dist_form |-> NoValue,
                  generic_form |-> NoValue, pushes_ok |-> 0, state_ts |-> 0 ]
    /\ sm = [ ppdns_state |-> NoValue, generic_state |-> NoValue,
              state_timestamp |-> NoValue ]
    /\ updater = [ pc |-> "get_timestamp", state_ts |-> NoValue ]
    /\ pdns_STATE = EmptyDict
    /\ pdns_STATE_TS = 0
    /\ response = [ request |-> NoValue, result |-> ResultFalse,
                    table |-> None ]
    /\ loop = [ running |-> TRUE, lines |-> 0, responses |-> 0,
                request |-> NoValue, result |-> None, locked |-> FALSE ]
    /\ fails = [ id \in MemberIds(State(c)) |-> 0 ]
    /\ window = NoWindow
    /\ read_failed = FALSE
    /\ prober = ProberProcess
    /\ guardian = Guardian
    /\ sched = [ interval |-> interval,
                 elapsed |-> [ id \in MemberIds(State(c)) |-> 0 ] ]

InitWith(c) == InitWithInterval(c, MIN_INTERVAL)

----------------------------------------------------------------------------
(* Tracker actions *)

MemberOf(S, id) == S.pools[id[1]].members[id[2]]

\* a variant of the step below in which the interval of no member ever
\* elapses: only the first probe of a member is requested
ScanState_first_only(due) ==
    LET requested == { id \in MemberIds(health_STATE) :
                         MemberOf(health_STATE, id).last_probe_issued_time
                           = None }
    IN  /\ requested # {}
        /\ due = {}
        /\ health_STATE' =
              [ health_STATE EXCEPT !.pools =
                  [ n \in DOMAIN health_STATE.pools |->
                      [ health_STATE.pools[n] EXCEPT !.members =
                          [ i \in 1..Len(health_STATE.pools[n].members) |->
                              request_probe(health_STATE.pools[n],
                                            health_STATE.pools[n].members[i],
                                            <<n, i>> \in requested) ] ] ] ]
        /\ probes' = [ id \in DOMAIN probes |->
                         IF id \in requested THEN probes[id] + 1
                         ELSE probes[id] ]
        /\ UNCHANGED <<cfg, prober, guardian, loop, read_failed, STATE_TIMESTAMP, pusher, sm, updater, pdns_STATE,
                       pdns_STATE_TS, response, fails, window, sched>>

\* Tracker._scan_state: _request_probe for every member; a member that was
\* never probed is always requested, a member in due is one whose interval
\* has elapsed. At most pending probes of a member are outstanding.
scan_state(due, pending) ==
    LET requested == { id \in MemberIds(health_STATE) :
                         \/ id \in due
                         \/ MemberOf(health_STATE, id).last_probe_issued_time
                              = None }
    IN  /\ requested # {}
        /\ \A id \in due :
              MemberOf(health_STATE, id).last_probe_issued_time # None
        /\ \A id \in requested : probes[id] < pending
        /\ health_STATE' =
              [ health_STATE EXCEPT !.pools =
                  [ n \in DOMAIN health_STATE.pools |->
                      [ health_STATE.pools[n] EXCEPT !.members =
                          [ i \in 1..Len(health_STATE.pools[n].members) |->
                              request_probe(health_STATE.pools[n],
                                            health_STATE.pools[n].members[i],
                                            <<n, i>> \in requested) ] ] ] ]
        /\ probes' = [ id \in DOMAIN probes |->
                         IF id \in requested THEN probes[id] + 1
                         ELSE probes[id] ]
        /\ UNCHANGED <<cfg, prober, guardian, loop, read_failed, STATE_TIMESTAMP, pusher, sm, updater, pdns_STATE,
                       pdns_STATE_TS, response, fails, window>>

\* _scan_state where the clock is not part of the model: the interval of
\* any of the members may have elapsed
ScanState(due) == scan_state(due, MaxPending) /\ UNCHANGED sched

\* a variant of the test below in which a member whose last probe failed
\* is probed again at once
interval_elapsed_or_failed(member, elapsed, interval) ==
    /\ member.last_probe_issued_time # None
    /\ \/ elapsed >= interval
       \/ member.status_reason \notin { None, "monitor passed" }

\* Tracker._request_probe: a probe had been issued for this member
\* already, is it time for a new one; elapsed is time.time() -
\* member.last_probe_issued_time, counted up to the interval
interval_elapsed(member, elapsed, interval) ==
    /\ member.last_probe_issued_time # None
    /\ elapsed >= interval

\* Tracker._scan_state at the time the clock shows: member.
\* last_probe_issued_time = time.time() for the members requested
TrackerScanState ==
    /\ scan_state({ id \in MemberIds(health_STATE) :
                      interval_elapsed(MemberOf(health_STATE, id),
                                       sched.elapsed[id], sched.interval) },
                  MaxOutstanding)
    /\ sched' = [ sched EXCEPT !.elapsed =
                    [ id \in DOMAIN sched.elapsed |->
                        IF probes'[id] > probes[id] THEN 0
                        ELSE sched.elapsed[id] ] ]

\* time.time() advancing by one tick
ClockTick ==
    /\ \E id \in DOMAIN sched.elapsed : sched.elapsed[id] < sched.interval
    /\ sched' = [ sched EXCEPT !.elapsed =
                    [ id \in DOMAIN sched.elapsed |->
                        Min(sched.elapsed[id] + 1, sched.interval) ] ]
    /\ UNCHANGED <<cfg, health_STATE, STATE_TIMESTAMP, probes, pusher, sm,
                   updater, pdns_STATE, pdns_STATE_TS, response, loop, fails,
                   window, read_failed, prober, guardian>>

\* a variant of the step below that never sets STATE_TIMESTAMP
ProcessProbe_timestamp_kept(id, status, status_reason) ==
    LET r == process_probe(health_STATE, STATE_TIMESTAMP,
                           Probe(id[1], MemberOf(health_STATE, id).ip,
                                 status, status_reason),
                           STATE_TIMESTAMP + 1)
    IN  /\ probes[id] > 0
        /\ r.timestamp <= MaxTime
        /\ probes' = [ probes EXCEPT ![id] = @ - 1 ]
        /\ health_STATE' = r.state
        /\ STATE_TIMESTAMP' = STATE_TIMESTAMP
        /\ UNCHANGED <<cfg, sched, prober, guardian, loop, read_failed, pusher, sm, updater, pdns_STATE, pdns_STATE_TS,
                       response, window>>

\* Tracker.run taking the response to a probe of member id off the queue
\* and processing it under STATE_LOCK
ProcessProbe(id, status, status_reason) ==
    LET r == process_probe(health_STATE, STATE_TIMESTAMP,
                           Probe(id[1], MemberOf(health_STATE, id).ip,
                                 status, status_reason),
                           STATE_TIMESTAMP + 1)
    IN  /\ probes[id] > 0
        /\ r.timestamp <= MaxTime
        /\ probes' = [ probes EXCEPT ![id] = @ - 1 ]
        /\ health_STATE' = r.state
        /\ STATE_TIMESTAMP' = r.timestamp
        /\ UNCHANGED <<cfg, sched, prober, guardian, loop, read_failed, pusher, sm, updater, pdns_STATE, pdns_STATE_TS,
                       response, window>>

\* history of the probe results: the number of consecutive failed results
\* of member id, counted up to two more than the retries of its pool
CountFails(id, status) ==
    fails' = [ fails EXCEPT ![id] =
                 IF status THEN 0
                 ELSE Min(@ + 1,
                          health_STATE.pools[id[1]].monitor.retries + 2) ]

----------------------------------------------------------------------------
(* StatePusher actions; sm.set succeeds (ok) or fails *)

\* StatePusher.run finding a changed STATE_TIMESTAMP, and push_states
\* generating the forms of the state under STATE_LOCK
PushStates ==
    /\ pusher.pc = "run"
    /\ STATE_TIMESTAMP # pusher.state_ts
    /\ \E dist_form \in to_dist_dict(health_STATE, STATE_TIMESTAMP) :
          pusher' = [ pusher EXCEPT !.pc = "set_ppdns_state",
                                    !.dist_form = dist_form,
                                    !.generic_form =
                                        instance_to_dict(health_STATE),
                                    !.pushes_ok = 0 ]
    /\ UNCHANGED <<cfg, sched, prober, guardian, loop, read_failed, health_STATE, STATE_TIMESTAMP, probes, sm, updater,
                   pdns_STATE, pdns_STATE_TS, response, fails, window>>

\* push_states: push PPDNS distribution form of the state
SetPpdnsState(ok) ==
    /\ pusher.pc = "set_ppdns_state"
    /\ sm' = IF ok
             THEN [ sm EXCEPT !.ppdns_state = Value(pusher.dist_form) ]
             ELSE sm
    /\ pusher' = [ pusher EXCEPT
                     !.pc = "set_generic_state",
                     !.pushes_ok = IF ok THEN @ + 1 ELSE @ ]
    /\ UNCHANGED <<cfg, sched, prober, guardian, loop, read_failed, health_STATE, STATE_TIMESTAMP, probes, updater,
                   pdns_STATE, pdns_STATE_TS, response, fails, window>>

\* a variant of the step below that pushes the state timestamp together
\* with the generic form
SetGenericState_with_timestamp(ok) ==
    /\ pusher.pc = "set_generic_state"
    /\ sm' = IF ok
             THEN [ sm EXCEPT !.generic_state =
                      Value([ pools |-> pusher.generic_form.pools,
                              timestamp |-> STATE_TIMESTAMP ]),
                    !.state_timestamp = Value(STATE_TIMESTAMP) ]
             ELSE sm
    /\ pusher' = [ pusher EXCEPT
                     !.pc = "set_state_timestamp",
                     !.pushes_ok = IF ok THEN @ + 1 ELSE @ ]
    /\ UNCHANGED <<cfg, sched, prober, guardian, loop, read_failed, health_STATE, STATE_TIMESTAMP, probes, updater,
                   pdns_STATE, pdns_STATE_TS, response, fails, window>>

\* push_states: push generic form of the state, with the timestamp added
SetGenericState(ok) ==
    /\ pusher.pc = "set_generic_state"
    /\ sm' = IF ok
             THEN [ sm EXCEPT !.generic_state =
                      Value([ pools |-> pusher.generic_form.pools,
                              timestamp |-> STATE_TIMESTAMP ]) ]
             ELSE sm
    /\ pusher' = [ pusher EXCEPT
                     !.pc = "set_state_timestamp",
                     !.pushes_ok = IF ok THEN @ + 1 ELSE @ ]
    /\ UNCHANGED <<cfg, sched, prober, guardian, loop, read_failed, health_STATE, STATE_TIMESTAMP, probes, updater,
                   pdns_STATE, pdns_STATE_TS, response, fails, window>>

\* push_states: push state timestamp last
SetStateTimestamp(ok) ==
    /\ pusher.pc = "set_state_timestamp"
    /\ sm' = IF ok
             THEN [ sm EXCEPT !.state_timestamp = Value(STATE_TIMESTAMP) ]
             ELSE sm
    /\ pusher' = [ pusher EXCEPT
                     !.pc = "pushes_done",
                     !.pushes_ok = IF ok THEN @ + 1 ELSE @ ]
    /\ UNCHANGED <<cfg, sched, prober, guardian, loop, read_failed, health_STATE, STATE_TIMESTAMP, probes, updater,
                   pdns_STATE, pdns_STATE_TS, response, fails, window>>

\* a variant of the step below that is content with one successful push
PushesDone_any_push ==
    /\ pusher.pc = "pushes_done"
    /\ pusher' = [ pc |-> "run", dist_form |-> NoValue,
                   generic_form |-> NoValue, pushes_ok |-> 0,
                   state_ts |-> IF pusher.pushes_ok > 0 THEN STATE_TIMESTAMP
                                ELSE pusher.state_ts ]
    /\ UNCHANGED <<cfg, sched, prober, guardian, loop, read_failed, health_STATE, STATE_TIMESTAMP, probes, sm, updater,
                   pdns_STATE, pdns_STATE_TS, response, fails, window>>

\* push_states: if all memcache pushes are successful set self.state_ts
PushesDone ==
    /\ pusher.pc = "pushes_done"
    /\ pusher' = [ pc |-> "run", dist_form |-> NoValue,
                   generic_form |-> NoValue, pushes_ok |-> 0,
                   state_ts |-> IF pusher.pushes_ok = 3 THEN STATE_TIMESTAMP
                                ELSE pusher.state_ts ]
    /\ UNCHANGED <<cfg, sched, prober, guardian, loop, read_failed, health_STATE, STATE_TIMESTAMP, probes, sm, updater,
                   pdns_STATE, pdns_STATE_TS, response, fails, window>>

----------------------------------------------------------------------------
(* StateUpdater actions; sm.get succeeds (ok) or fails and returns None *)

\* update_state: fetch state timestamp, compare it to the current timestamp
GetStateTimestamp(ok) ==
    LET state_ts == IF ok THEN sm.state_timestamp ELSE NoValue
    IN  /\ updater.pc = "get_timestamp"
        /\ updater' = IF state_ts = NoValue THEN updater
                      ELSE IF state_ts.value = pdns_STATE_TS THEN updater
                      ELSE [ pc |-> "get_state", state_ts |-> state_ts ]
        /\ UNCHANGED <<cfg, sched, prober, guardian, loop, health_STATE, STATE_TIMESTAMP, probes, pusher,
                       sm, pdns_STATE, pdns_STATE_TS, response, fails, window>>

\* a variant of the step below that records the fetched timestamp before it
\* looks at the fetched state
GetPpdnsState_timestamp_first(ok) ==
    LET state == IF ok THEN sm.ppdns_state ELSE NoValue
    IN  /\ updater.pc = "get_state"
        /\ updater' = [ pc |-> "get_timestamp", state_ts |-> NoValue ]
        /\ pdns_STATE_TS' = updater.state_ts.value
        /\ IF state = NoValue
           THEN UNCHANGED <<pdns_STATE, window>>
           ELSE /\ pdns_STATE' =
                     sync_dist_table_indexes(pdns_STATE, state.value)
                /\ window' = NoWindow
        /\ UNCHANGED <<cfg, sched, prober, guardian, loop, health_STATE, STATE_TIMESTAMP, probes,
                       pusher, sm, response, fails>>

\* update_state: get distribution form of state from shared memory and,
\* under STATE_LOCK, copy the indexes and make it active
GetPpdnsState(ok) ==
    LET state == IF ok THEN sm.ppdns_state ELSE NoValue
    IN  /\ updater.pc = "get_state"
        /\ updater' = [ pc |-> "get_timestamp", state_ts |-> NoValue ]
        /\ IF state = NoValue
           THEN UNCHANGED <<pdns_STATE, pdns_STATE_TS, window>>
           ELSE /\ ~loop.locked
                /\ pdns_STATE' =
                     sync_dist_table_indexes(pdns_STATE, state.value)
                /\ pdns_STATE_TS' = updater.state_ts.value
                /\ window' = NoWindow
        /\ UNCHANGED <<cfg, sched, prober, guardian, loop, health_STATE, STATE_TIMESTAMP, probes, pusher,
                       sm, response, fails>>

----------------------------------------------------------------------------
(* RemoteBackend / Polaris actions *)

Params(qname, qtype, remote) ==
    [ qname |-> qname, qtype |-> qtype, remote |-> remote ]

\* the lookup requests PowerDNS sends: remote 0 is in both networks of the
\* topology map (region eu), 5 in no region; "c" is no globalname
Requests ==
    { Params(<<"a">>, "A", r) : r \in { 0, 5 } }
    \cup { Params(<<"A", ".">>, t, 5) : t \in { "ANY", "SOA" } }
    \cup { Params(<<"b">>, t, 0) : t \in { "A", "AAAA" } }
    \cup { Params(<<"c">>, t, 0) : t \in { "A", "ANY", "SOA" } }

\* RemoteBackend.__main_loop reading a lookup request, running do_lookup
\* under STATE_LOCK and writing the response
Lookup(params) ==
    LET reply == do_lookup(pdns_STATE, params)
    IN  /\ UNCHANGED <<cfg, sched, prober, guardian, read_failed, health_STATE, STATE_TIMESTAMP, probes, pusher,
                       sm, updater, pdns_STATE_TS, fails>>
        /\ response' = [ request |-> Value(params),
                         result |-> reply.result, table |-> reply.table ]
        /\ pdns_STATE' = reply.state

\* a line read from stdin: the empty line, a text that is not JSON, or a
\* JSON object with its 'method' and 'parameters' keys (None, NoValue: the
\* object has no such key)
Line(kind, method, parameters) ==
    [ kind |-> kind, method |-> method, parameters |-> parameters ]

\* the do_ methods of Polaris and RemoteBackend
Implemented == { "lookup", "initialize", "getDomainMetadata" }

\* __main_loop after a line that is answered with the given result: one
\* response is written and the loop goes on (running) or returns; locked
\* is STATE_LOCK, which the with statement of do_lookup has released when
\* the method returns or raises
Responded(line, result, running) ==
    [ running |-> running, lines |-> loop.lines + 1,
      responses |-> loop.responses + 1,
      request |-> Value(line), result |-> result, locked |-> FALSE ]

\* __main_loop after a line that is not answered: the empty line, on which
\* it returns, or an object without 'method', whose KeyError nothing catches
Stopped(line) ==
    [ running |-> FALSE, lines |-> loop.lines + 1,
      responses |-> loop.responses,
      request |-> Value(line), result |-> None, locked |-> FALSE ]

\* a variant of the iteration below without the except clause around the
\* call of the method: the KeyError of a lookup in a state without
\* 'globalnames' ends the loop
MainLoop_no_except(line) ==
    /\ loop.running
    /\ loop.lines < MaxLines
    /\ IF line.kind = "json" /\ line.method = "lookup"
          /\ line.parameters # NoValue
          /\ "globalnames" \in DOMAIN pdns_STATE
       THEN /\ Lookup(line.parameters.value)
            /\ loop' = Responded(line,
                                 IF response'.result = ResultFalse
                                 THEN "False" ELSE "records",
                                 TRUE)
       ELSE /\ loop' =
                 IF line.kind = "empty" THEN Stopped(line)
                 ELSE IF line.kind = "text"
                 THEN Responded(line, "False", FALSE)
                 ELSE IF line.method = None THEN Stopped(line)
                 ELSE IF line.method \notin Implemented
                 THEN Responded(line, "False", TRUE)
                 ELSE IF line.parameters = NoValue
                 THEN Responded(line, "False", TRUE)
                 ELSE IF line.method = "initialize"
                 THEN Responded(line, "True", TRUE)
                 ELSE IF line.method = "lookup" THEN Stopped(line)
                 ELSE Responded(line, "False", TRUE)
            /\ UNCHANGED <<cfg, sched, prober, guardian, health_STATE, STATE_TIMESTAMP, probes,
                           pusher, sm, updater, pdns_STATE, pdns_STATE_TS,
                           response, fails, read_failed>>

\* one iteration of RemoteBackend.__main_loop on the line read
MainLoop(line) ==
    /\ loop.running
    /\ loop.lines < MaxLines
    /\ IF line.kind = "json" /\ line.method = "lookup"
          /\ line.parameters # NoValue
       THEN /\ Lookup(line.parameters.value)
            /\ loop' = Responded(line,
                                 IF response'.result = ResultFalse
                                 THEN "False" ELSE "records",
                                 TRUE)
       ELSE /\ loop' =
                 IF line.kind = "empty" THEN Stopped(line)
                 ELSE IF line.kind = "text"
                 THEN Responded(line, "False", FALSE)
                 ELSE IF line.method = None THEN Stopped(line)
                 ELSE IF line.method \notin Implemented
                 THEN Responded(line, "False", TRUE)
                 ELSE IF line.parameters = NoValue
                 THEN Responded(line, "False", TRUE)
                 ELSE IF line.method = "initialize"
                 THEN Responded(line, "True", TRUE)
                 ELSE Responded(line, "False", TRUE)
            /\ UNCHANGED <<cfg, sched, prober, guardian, health_STATE, STATE_TIMESTAMP, probes,
                           pusher, sm, updater, pdns_STATE, pdns_STATE_TS,
                           response, fails, read_failed>>

\* history of the lookups: the run of consecutive A lookups of one
\* globalname answered with one record each from the same table, of which
\* at most as many as the rotation is long are kept
NextWindow(w, S, params, reply) ==
    LET qname == NormalizeQname(params.qname)
        pool == S.pools[S.globalnames[qname].pool_name]
        grown == IF w.qname = qname /\ w.table = reply.table
                 THEN w.served \o << reply.result[1].content >>
                 ELSE << reply.result[1].content >>
        L == Len(pool.dist_tables[reply.table].rotation)
    IN  IF /\ params.qtype = "A"
           /\ reply.result # ResultFalse
           /\ reply.table # None
           /\ pool.max_addrs_returned = 1
        THEN [ qname |-> qname, table |-> reply.table,
               served |-> IF Len(grown) > L
                          THEN SubSeq(grown, Len(grown) - L + 1, Len(grown))
                          ELSE grown ]
        ELSE NoWindow

----------------------------------------------------------------------------
(* The health process as the distribution process sees it *)

\* a member with the given status as _process_probe leaves it after a
\* passed probe (UP) or after the failed probe that took it DOWN
Settled(pool, member, status) ==
    [ member EXCEPT
        !.status = status,
        !.status_reason = IF status = UP THEN "monitor passed"
                          ELSE IF status = DOWN THEN "timeout" ELSE None,
        !.retries_left = IF status = DOWN THEN 0 ELSE pool.monitor.retries,
        !.last_probe_issued_time = "issued" ]

\* probe results that change the status of some members (to_status gives
\* the new status of every member; no member returns to UNKNOWN), followed
\* by a run of push_states in which every sm.set succeeds
HealthPublish(to_status) ==
    LET S == [ health_STATE EXCEPT !.pools =
                 [ n \in DOMAIN health_STATE.pools |->
                     change_pool_last_status(
                       [ health_STATE.pools[n] EXCEPT !.members =
                           [ i \in 1..Len(health_STATE.pools[n].members) |->
                               Settled(health_STATE.pools[n],
                                       health_STATE.pools[n].members[i],
                                       to_status[<<n, i>>]) ] ]) ] ]
        now == STATE_TIMESTAMP + 1
    IN  /\ pusher.pc = "run"
        /\ now <= MaxTime
        /\ \E id \in DOMAIN to_status :
              to_status[id] # MemberOf(health_STATE, id).status
        /\ \A id \in DOMAIN to_status :
              to_status[id] = UNKNOWN =>
                  MemberOf(health_STATE, id).status = UNKNOWN
        /\ health_STATE' = S
        /\ STATE_TIMESTAMP' = now
        /\ \E dist_form \in to_dist_dict(S, now) :
              sm' = [ ppdns_state |-> Value(dist_form),
                      generic_state |->
                          Value([ pools |-> instance_to_dict(S).pools,
                                  timestamp |-> now ]),
                      state_timestamp |-> Value(now) ]
        /\ pusher' = [ pusher EXCEPT !.state_ts = now ]
        /\ UNCHANGED <<cfg, sched, prober, guardian, loop, read_failed, probes, updater, pdns_STATE, pdns_STATE_TS,
                       response, fails, window>>

----------------------------------------------------------------------------
(* polaris_health.prober : ProberProcess and its ProberThreads *)

\* the variables of the tracker, the state pusher and the distribution
\* process
polaris_vars ==
    <<cfg, health_STATE, STATE_TIMESTAMP, probes, pusher, sm, updater,
      pdns_STATE, pdns_STATE_TS, response, loop, fails, window, read_failed,
      sched>>

\* what monitor.run does: it returns, raises MonitorFailed or raises
\* another exception (the monitors raise Error; a crash raises any
\* Exception), with the text str(e) gives
MonitorOutcome(kind, text) == [ kind |-> kind, text |-> text ]

MonitorOutcomes ==
    { MonitorOutcome("returns", None),
      MonitorOutcome("MonitorFailed", "timeout"),
      MonitorOutcome("Exception", "crashed") }

\* a variant of the run below that catches MonitorFailed only
ProbeRun_monitor_failed_only(id, outcome) ==
    [ raised |-> outcome.kind = "Exception",
      probe |-> Probe(id[1], MemberOf(health_STATE, id).ip,
                      outcome.kind = "returns",
                      IF outcome.kind = "returns" THEN "monitor passed"
                      ELSE outcome.text) ]

\* Probe.run on the probe of member id: the probe with its status and
\* status_reason, and whether an exception leaves run
ProbeRun(id, outcome) ==
    [ raised |-> FALSE,
      probe |-> IF outcome.kind = "MonitorFailed"
                THEN Probe(id[1], MemberOf(health_STATE, id).ip,
                           FALSE, outcome.text)
                ELSE IF outcome.kind = "Exception"
                THEN Probe(id[1], MemberOf(health_STATE, id).ip,
                           FALSE, outcome.text)
                ELSE Probe(id[1], MemberOf(health_STATE, id).ip,
                           TRUE, "monitor passed") ]

\* a variant of the step below without the limit on the number of threads
spinathread_no_limit(p) ==
    LET t == CHOOSE t \in ThreadIds : t \notin p.listed
    IN  [ p EXCEPT !.listed = @ \union { t },
                   !.threads[t] = [ pc |-> "get", probe |-> NoValue ] ]

\* ProberProcess._spinathread; a new thread takes the place of one that
\* was joined and removed from self._threads
spinathread(p) ==
    IF Cardinality(p.listed) >= MAX_PROBER_THREADS THEN p
    ELSE LET t == CHOOSE t \in ThreadIds : t \notin p.listed
         IN  [ p EXCEPT !.listed = @ \union { t },
                        !.threads[t] = [ pc |-> "get", probe |-> NoValue ] ]

\* ProberProcess._process_probe_request; request is NoValue when the get
\* on the prober requests queue timed out
process_probe_request(p, request) ==
    IF request = NoValue THEN p
    ELSE LET spun == IF Cardinality(p.listed) - p.threads_busy <= 0
                     THEN spinathread(p) ELSE p
         IN  [ spun EXCEPT !.thread_requests = Append(@, request),
                           !.requests = @ + 1 ]

\* a variant of the step below that leaves the response on the queue of
\* the threads
process_probe_response_peek(p) ==
    IF p.thread_responses = << >> THEN p
    ELSE [ p EXCEPT
             !.prober_responses = Append(@, Head(p.thread_responses)) ]

\* ProberProcess._process_probe_response: a response of the threads, if
\* there is one, goes to the prober responses queue
process_probe_response(p) ==
    IF p.thread_responses = << >> THEN p
    ELSE [ p EXCEPT !.thread_responses = Tail(@),
                    !.prober_responses = Append(@, Head(p.thread_responses)) ]

\* a variant of the step below that leaves the threads that exited in
\* self._threads
cleanup_threads_no_join(p) ==
    LET num_to_kill == Cardinality(p.listed) - p.max_busy_threads - 1
    IN  [ p EXCEPT
            !.thread_requests =
                IF Cardinality(p.listed) - p.max_busy_threads
                     >= EXCESSIVE_THREADS_THRESHOLD
                THEN @ \o Repeat(NoValue, num_to_kill)
                ELSE @ ]

\* a variant of the step below that sends a poison pill for every thread
\* above the maximum number of busy ones
cleanup_threads_every_idle(p) ==
    LET joined == { t \in p.listed : p.threads[t].pc = "exited" }
        left == p.listed \ joined
        num_to_kill == Cardinality(left) - p.max_busy_threads
    IN  [ p EXCEPT
            !.listed = left,
            !.threads = [ t \in DOMAIN @ |->
                            IF t \in joined
                            THEN [ pc |-> "unstarted", probe |-> NoValue ]
                            ELSE @[t] ],
            !.thread_requests =
                IF Cardinality(left) - p.max_busy_threads
                     >= EXCESSIVE_THREADS_THRESHOLD
                THEN @ \o Repeat(NoValue, num_to_kill)
                ELSE @ ]

\* ProberProcess._cleanup_threads: join the threads that exited, send
\* poison pills to the excessive ones
cleanup_threads(p) ==
    LET joined == { t \in p.listed : p.threads[t].pc = "exited" }
        left == p.listed \ joined
        num_to_kill == Cardinality(left) - p.max_busy_threads - 1
    IN  [ p EXCEPT
            !.listed = left,
            !.threads = [ t \in DOMAIN @ |->
                            IF t \in joined
                            THEN [ pc |-> "unstarted", probe |-> NoValue ]
                            ELSE @[t] ],
            !.thread_requests =
                IF Cardinality(left) - p.max_busy_threads
                     >= EXCESSIVE_THREADS_THRESHOLD
                THEN @ \o Repeat(NoValue, num_to_kill)
                ELSE @ ]

\* the body of the loop of ProberProcess.run
prober_iteration(p, request, cleanup) ==
    LET p1 == process_probe_response(process_probe_request(p, request))
        p2 == [ p1 EXCEPT !.max_busy_threads =
                  IF @ < p1.threads_busy THEN p1.threads_busy ELSE @ ]
    IN  IF cleanup
        THEN [ cleanup_threads(p2) EXCEPT !.max_busy_threads = 0 ]
        ELSE p2

\* one iteration of the loop of ProberProcess.run; cleanup tells that
\* CLEANUP_THREADS_INTERVAL has elapsed
ProberRun(request, cleanup) ==
    LET p3 == prober_iteration(prober, request, cleanup)
    IN  /\ request # NoValue => prober.requests < MaxProbes
        /\ Len(p3.thread_requests) <= MaxQueue
        /\ prober' = p3
        /\ UNCHANGED <<polaris_vars, guardian>>

\* the probes of member id inside the prober process p: requests waiting
\* for a thread, probes being run and responses of the threads
Waiting(p, id) ==
    Cardinality({ i \in 1..Len(p.thread_requests) :
                    p.thread_requests[i] = Value(id) })

Running(p, id) ==
    Cardinality({ t \in ThreadIds : /\ p.threads[t].pc = "run"
                                    /\ p.threads[t].probe = Value(id) })

Answered(q, id) ==
    Cardinality({ i \in 1..Len(q) :
                    /\ q[i] # NoValue
                    /\ q[i].pool_name = id[1]
                    /\ q[i].member_ip = MemberOf(health_STATE, id).ip })

InProber(p, id) ==
    Waiting(p, id) + Running(p, id) + Answered(p.thread_responses, id)

\* the iteration in a prober process that runs for ever. What the thread
\* requests queue holds beyond MaxQueue items is not followed, the
\* requests read are not counted, and the tracker has taken the responses
\* put on the prober responses queue before. The probes of the first
\* member are requested one at a time, those of the others at any time.
ProberRunForever(request, cleanup) ==
    LET p3 == prober_iteration(prober, request, cleanup)
        n == Min(Len(p3.thread_requests), MaxQueue)
    IN  /\ request = Value(<<"p1", 1>>) =>
              /\ InProber(prober, <<"p1", 1>>) = 0
              /\ Len(prober.thread_requests) < MaxQueue
        /\ prober' =
              [ p3 EXCEPT
                  !.thread_requests = SubSeq(@, 1, n),
                  !.requests = 0,
                  !.prober_responses =
                      IF prober.thread_responses = << >> THEN << >>
                      ELSE << Head(prober.thread_responses) >> ]
        /\ UNCHANGED <<polaris_vars, guardian>>

\* ProberThread.run: get a probe from the thread requests queue; a poison
\* pill ends the thread
ThreadGet(t) ==
    /\ prober.threads[t].pc = "get"
    /\ prober.thread_requests # << >>
    /\ prober' =
          IF Head(prober.thread_requests) = NoValue
          THEN [ prober EXCEPT
                   !.thread_requests = Tail(@),
                   !.threads[t] = [ pc |-> "exited", probe |-> NoValue ] ]
          ELSE [ prober EXCEPT
                   !.thread_requests = Tail(@),
                   !.threads[t] = [ pc |-> "run",
                                    probe |-> Head(prober.thread_requests) ],
                   !.threads_busy = @ + 1 ]
    /\ UNCHANGED <<polaris_vars, guardian>>

\* ProberThread.run: run the probe and put it on the response queue; an
\* exception that leaves probe.run() ends the thread
ThreadRunProbe(t, outcome) ==
    LET r == ProbeRun(prober.threads[t].probe.value, outcome)
    IN  /\ prober.threads[t].pc = "run"
        /\ prober' =
              IF r.raised
              THEN [ prober EXCEPT
                       !.threads[t] = [ pc |-> "exited", probe |-> NoValue ] ]
              ELSE [ prober EXCEPT
                       !.thread_responses = Append(@, r.probe),
                       !.threads[t] = [ pc |-> "get", probe |-> NoValue ],
                       !.threads_busy = @ - 1 ]
        /\ UNCHANGED <<polaris_vars, guardian>>

----------------------------------------------------------------------------
(* polaris_health.guardian : Guardian *)

\* p.is_alive() : a process that was sent SIGKILL is alive until it is gone
is_alive(processes, p) == processes[p] \in { "alive", "killed" }

\* entering Guardian._terminate_child_procs, to go on at pc then
terminate_child_procs(g, then) ==
    [ g EXCEPT !.pc = "terminate", !.i = 0, !.then = then ]

\* a child process dies by itself
ChildDies(p) ==
    /\ guardian.processes[p] = "alive"
    /\ guardian.pc # "finished"
    /\ guardian' = [ guardian EXCEPT !.processes[p] = "dead" ]
    /\ UNCHANGED <<polaris_vars, prober>>

\* a child process that was sent SIGKILL is gone
ChildKilled(p) ==
    /\ guardian.processes[p] = "killed"
    /\ guardian' = [ guardian EXCEPT !.processes[p] = "dead" ]
    /\ UNCHANGED <<polaris_vars, prober>>

\* _control_loop: process control connections; cmd is None when accept
\* timed out
ControlConnection(cmd) ==
    /\ guardian.pc = "accept"
    /\ guardian' =
          IF cmd = "stop"
          THEN [ terminate_child_procs(guardian, "health_check")
                   EXCEPT !.stop = TRUE ]
          ELSE [ guardian EXCEPT !.pc = "health_check" ]
    /\ UNCHANGED <<polaris_vars, prober>>

\* _sigterm_handler, SIGTERM arriving while the guardian waits in accept,
\* checks the child procs or joins them; it goes on there afterwards
SigtermHandler ==
    /\ guardian.pc \in { "accept", "health_check", "join" }
    /\ guardian.signals < MaxSignals
    /\ guardian' = [ terminate_child_procs(guardian, guardian.pc)
                       EXCEPT !.stop = TRUE, !.signals = @ + 1 ]
    /\ UNCHANGED <<polaris_vars, prober>>

\* a variant of the step below without the SIGKILL after the last attempt
TerminateAttempt_without_sigkill(exited) ==
    LET terminated == [ p \in Processes |->
                          IF p \in exited THEN "dead"
                          ELSE guardian.processes[p] ]
        running == { p \in Processes : is_alive(terminated, p) }
    IN  /\ guardian.pc = "terminate"
        /\ \A p \in exited : guardian.processes[p] = "alive"
        /\ guardian' =
              IF running = {} \/ guardian.i + 1 = MAX_TERMINATE_ATTEMPTS
              THEN [ guardian EXCEPT !.pc = guardian.then, !.i = 0,
                                     !.then = None,
                                     !.processes = terminated ]
              ELSE [ guardian EXCEPT !.i = @ + 1,
                                     !.processes = terminated ]
        /\ UNCHANGED <<polaris_vars, prober>>

\* _terminate_child_procs: one attempt, .terminate() on the alive processes
\* and the sleep during which those in exited exit; after the last attempt
\* the processes that are still alive are sent SIGKILL
TerminateAttempt(exited) ==
    LET terminated == [ p \in Processes |->
                          IF p \in exited THEN "dead"
                          ELSE guardian.processes[p] ]
        running == { p \in Processes : is_alive(terminated, p) }
    IN  /\ guardian.pc = "terminate"
        /\ \A p \in exited : guardian.processes[p] = "alive"
        /\ guardian' =
              IF running = {}
              THEN [ guardian EXCEPT !.pc = guardian.then, !.i = 0,
                                     !.then = None,
                                     !.processes = terminated ]
              ELSE IF guardian.i + 1 = MAX_TERMINATE_ATTEMPTS
              THEN [ guardian EXCEPT
                       !.pc = guardian.then, !.i = 0, !.then = None,
                       !.processes = [ p \in Processes |->
                                         IF p \in running THEN "killed"
                                         ELSE terminated[p] ] ]
              ELSE [ guardian EXCEPT !.i = @ + 1,
                                     !.processes = terminated ]
        /\ UNCHANGED <<polaris_vars, prober>>

\* _control_loop: health check the child procs, push heartbeat
HealthCheck ==
    LET alive == Cardinality({ p \in Processes :
                                 is_alive(guardian.processes, p) })
    IN  /\ guardian.pc = "health_check"
        /\ guardian' =
              IF alive = 0 THEN [ guardian EXCEPT !.pc = "join" ]
              ELSE IF alive # guardian.procs_started
              THEN terminate_child_procs(guardian, "join")
              ELSE [ guardian EXCEPT !.pc = "accept" ]
        /\ UNCHANGED <<polaris_vars, prober>>

\* Guardian.start after the control loop: join() the processes
JoinProcesses ==
    /\ guardian.pc = "join"
    /\ \A p \in Processes : guardian.processes[p] = "dead"
    /\ guardian' = [ guardian EXCEPT !.pc = "finished" ]
    /\ UNCHANGED <<polaris_vars, prober>>

----------------------------------------------------------------------------
(* Specifications *)

\* the tracker, with the history of the probe results
Tracker ==
    \/ \E due \in SUBSET MemberIds(health_STATE) : ScanState(due)
    \/ \E id \in MemberIds(health_STATE) :
          \/ ProcessProbe(id, TRUE, "monitor passed") /\ CountFails(id, TRUE)
          \/ \E reason \in FailReasons :
                ProcessProbe(id, FALSE, reason) /\ CountFails(id, FALSE)

\* the tracker in the health process
TrackerRun ==
    \/ \E due \in SUBSET MemberIds(health_STATE) : ScanState(due)
    \/ \E id \in MemberIds(health_STATE) :
          \/ ProcessProbe(id, TRUE, "monitor passed") /\ UNCHANGED fails
          \/ ProcessProbe(id, FALSE, "timeout") /\ UNCHANGED fails

StatePusher ==
    \/ PushStates
    \/ \E ok \in BOOLEAN : SetPpdnsState(ok)
    \/ \E ok \in BOOLEAN : SetGenericState(ok)
    \/ \E ok \in BOOLEAN : SetStateTimestamp(ok)
    \/ PushesDone

StateUpdater ==
    \/ \E ok \in BOOLEAN : GetStateTimestamp(ok) /\ UNCHANGED read_failed
    \/ \E ok \in BOOLEAN : GetPpdnsState(ok) /\ UNCHANGED read_failed

Health ==
    \E to_status \in [ MemberIds(health_STATE) -> { UP, DOWN, UNKNOWN } ] :
        HealthPublish(to_status)

Polaris ==
    \E params \in Requests : Lookup(params) /\ UNCHANGED <<window, loop>>

\* the health process, the shared memory and the state updater
Init == InitWith(OnePool(Pool1Cfg(0, "fogroup", "refuse", 1, 1, 1)))

Next == TrackerRun \/ StatePusher \/ StateUpdater

Spec == Init /\ [][Next]_vars

\* the health process: the tracker and the state pusher, whose pushes may
\* fail
NextPusher == TrackerRun \/ StatePusher

SpecPusher == Init /\ [][NextPusher]_vars

\* the health process while every push succeeds, the state pusher thread
\* being scheduled again and again
PusherWrites ==
    \/ PushStates
    \/ SetPpdnsState(TRUE)
    \/ SetGenericState(TRUE)
    \/ SetStateTimestamp(TRUE)
    \/ PushesDone

NextPusherLive == TrackerRun \/ PusherWrites

SpecPusherLive == Init /\ [][NextPusherLive]_vars /\ WF_vars(PusherWrites)

\* the tracker alone
TrackerConfigs ==
    { OnePool(Pool1Cfg(retries, "wrr", "any", 1, 1, w2)) :
        retries \in 0..MaxRetries, w2 \in { 0, 1 } }

InitTracker == \E c \in TrackerConfigs : InitWith(c)

SpecTracker == InitTracker /\ [][Tracker]_vars

\* the tracker under fair scheduling: the interval of every member elapses
\* again and again, and every probe requested yields a response that the
\* tracker processes. The clock readings of a behaviour being bounded, a
\* status change is taken only if those left suffice for the members that
\* are still UNKNOWN.
Undetermined(S) ==
    Cardinality({ id \in MemberIds(S) : MemberOf(S, id).status = UNKNOWN })

WithinMaxTime ==
    STATE_TIMESTAMP' + Undetermined(health_STATE') <= MaxTime

TrackerMembers == { <<"p1", 1>>, <<"p1", 2>> }

TrackerScan(id) ==
    \E due \in SUBSET MemberIds(health_STATE) :
        ScanState(due) /\ probes'[id] > probes[id]

TrackerResponse(id) ==
    \/ ProcessProbe(id, TRUE, "monitor passed") /\ UNCHANGED fails
    \/ \E reason \in FailReasons :
          ProcessProbe(id, FALSE, reason) /\ UNCHANGED fails

NextTrackerLive ==
    /\ \/ \E due \in SUBSET MemberIds(health_STATE) : ScanState(due)
       \/ \E id \in MemberIds(health_STATE) : TrackerResponse(id)
    /\ WithinMaxTime

FairTracker ==
    \A id \in TrackerMembers :
        /\ WF_vars(TrackerScan(id) /\ WithinMaxTime)
        /\ WF_vars(TrackerResponse(id) /\ WithinMaxTime)

\* a member with a weight and one without: both are probed
TrackerLiveConfigs ==
    { OnePool(Pool1Cfg(retries, "wrr", "any", 1, 1, 0)) :
        retries \in 0..MaxRetries }

InitTrackerLive == \E c \in TrackerLiveConfigs : InitWith(c)

SpecTrackerLive == InitTrackerLive /\ [][NextTrackerLive]_vars /\ FairTracker

\* the tracker with its clock: a scan requests the probes that are due at
\* the time it runs, and several probes of a member may be outstanding
ScheduleConfigs ==
    { OnePool(Pool1Cfg(retries, "wrr", "any", 1, 1, 0)) :
        retries \in 0..MaxRetries }

InitSchedule ==
    \E c \in ScheduleConfigs, interval \in MIN_INTERVAL..MaxInterval :
        InitWithInterval(c, interval)

NextSchedule ==
    \/ TrackerScanState
    \/ ClockTick
    \/ \E id \in MemberIds(health_STATE) :
          \/ ProcessProbe(id, TRUE, "monitor passed") /\ CountFails(id, TRUE)
          \/ ProcessProbe(id, FALSE, "timeout") /\ CountFails(id, FALSE)

SpecSchedule == InitSchedule /\ [][NextSchedule]_vars

\* the same under fair scheduling: time passes, Tracker.run scans the state
\* again and again and every probe requested yields a response
InitScheduleLive ==
    \E interval \in MIN_INTERVAL..MaxInterval :
        InitWithInterval(OnePool(Pool1Cfg(1, "wrr", "any", 1, 1, 0)),
                         interval)

NextScheduleLive ==
    /\ \/ TrackerScanState /\ UNCHANGED fails
       \/ ClockTick
       \/ \E id \in MemberIds(health_STATE) : TrackerResponse(id)
    /\ WithinMaxTime

SpecScheduleLive ==
    /\ InitScheduleLive
    /\ [][NextScheduleLive]_vars
    /\ WF_vars(TrackerScanState /\ UNCHANGED fails /\ WithinMaxTime)
    /\ WF_vars(ClockTick)
    /\ \A id \in TrackerMembers : WF_vars(TrackerResponse(id) /\ WithinMaxTime)

\* the distribution process
DnsConfigs ==
    { OnePool(Pool1Cfg(0, "twrr", "any", 1, 1, 1)),
      OnePool(Pool1Cfg(0, "wrr", "refuse", 2, 1, 1)),
      OnePool(Pool1Cfg(0, "wrr", "any", 1, 0, 0)),
      TwoPools(PoolCfg(0, "fogroup", "any", 3, << Member(1, "s1", 1) >>)) }

InitDns == \E c \in DnsConfigs : InitWith(c)

NextDns == Health \/ StateUpdater \/ Polaris

SpecDns == InitDns /\ [][NextDns]_vars

\* the distribution process with the history of the lookups, for pools
\* that return one address
RRConfigs ==
    { OnePool(Pool1Cfg(0, "wrr", "refuse", 1, 2, 1)),
      OnePool(Pool1Cfg(0, "twrr", "any", 1, 1, 1)) }

RRRequests ==
    { Params(<<"a">>, "A", 0), Params(<<"a">>, "A", 5),
      Params(<<"b">>, "A", 5), Params(<<"a">>, "SOA", 5) }

InitRR == \E c \in RRConfigs : InitWith(c)

PolarisRR ==
    \E params \in RRRequests :
        /\ Lookup(params)
        /\ window' = NextWindow(window, pdns_STATE, params,
                                do_lookup(pdns_STATE, params))
        /\ UNCHANGED loop

NextRR == Health \/ StateUpdater \/ PolarisRR

SpecRR == InitRR /\ [][NextRR]_vars

\* the distribution process with every kind of line PowerDNS may send and
\* the history of the reads of the state updater
Lines ==
    { Line("empty", None, NoValue), Line("text", None, NoValue),
      Line("json", None, NoValue), Line("json", "list", NoValue),
      Line("json", "lookup", NoValue),
      Line("json", "initialize", Value(Params(<<"a">>, "A", 5))),
      Line("json", "getDomainMetadata", Value(Params(<<"a">>, "A", 5))),
      Line("json", "lookup", Value(Params(<<"a">>, "A", 5))),
      Line("json", "lookup", Value(Params(<<"c">>, "A", 5))) }

InitBackend == InitWith(OnePool(Pool1Cfg(0, "wrr", "refuse", 1, 1, 1)))

Backend == \E line \in Lines : MainLoop(line) /\ UNCHANGED window

StateUpdaterReads ==
    \/ \E ok \in BOOLEAN : GetStateTimestamp(ok) /\ read_failed' = ~ok
    \/ \E ok \in BOOLEAN : GetPpdnsState(ok) /\ read_failed' = ~ok

NextBackend == Health \/ StateUpdaterReads \/ Backend

SpecBackend == InitBackend /\ [][NextBackend]_vars

\* the health process publishing the state of one pool of three members,
\* s1 in region eu, s2 and s3 in region us, for every lb_method and fallback
\* and for weights that disable no member, the first one or the second one
ThreeMembers(w) ==
    << Member(1, "s1", w[1]), Member(2, "s2", w[2]), Member(3, "s3", w[3]) >>

DistWeights == { <<1, 1, 1>>, <<0, 1, 1>>, <<2, 0, 1>> }

DistConfigs ==
    { OnePool(PoolCfg(0, lb_method, fallback, 2, ThreeMembers(w))) :
        lb_method \in { "wrr", "twrr", "fogroup" },
        fallback \in { "any", "refuse" },
        w \in DistWeights }

InitDist == \E c \in DistConfigs : InitWith(c)

NextDist == Health

SpecDist == InitDist /\ [][NextDist]_vars

\* the distribution process answering for a pool whose first member has
\* weight 2, so that its address is at two positions of a rotation
ReplyConfigs ==
    { OnePool(Pool1Cfg(0, "wrr", "any", 2, 2, 1)),
      OnePool(Pool1Cfg(0, "twrr", "any", 1, 2, 1)) }

ReplyRequests == { Params(<<"a">>, "A", 0) }

InitReply == \E c \in ReplyConfigs : InitWith(c)

NextReply ==
    \/ Health
    \/ StateUpdater
    \/ \E params \in ReplyRequests :
          Lookup(params) /\ UNCHANGED <<window, loop>>

SpecReply == InitReply /\ [][NextReply]_vars

\* the prober process and its threads
NextProber ==
    \/ \E request \in { NoValue } \union
                       { Value(id) : id \in MemberIds(health_STATE) },
          cleanup \in BOOLEAN : ProberRun(request, cleanup)
    \/ \E t \in ThreadIds : ThreadGet(t)
    \/ \E t \in ThreadIds, outcome \in MonitorOutcomes :
          ThreadRunProbe(t, outcome)

SpecProber == InitBackend /\ [][NextProber]_vars

\* the prober process running for ever: the tracker keeps requesting
\* probes, CLEANUP_THREADS_INTERVAL elapses again and again, the threads
\* are scheduled and every monitor call ends (it returns: what a monitor
\* found is nothing the threads look at)
ProberRequest ==
    \E id \in MemberIds(health_STATE) : ProberRunForever(Value(id), FALSE)

NextProberLive ==
    \/ \E request \in { NoValue } \union
                       { Value(id) : id \in MemberIds(health_STATE) },
          cleanup \in BOOLEAN : ProberRunForever(request, cleanup)
    \/ \E t \in ThreadIds : ThreadGet(t)
    \/ \E t \in ThreadIds :
          ThreadRunProbe(t, MonitorOutcome("returns", None))

SpecProberLive ==
    /\ InitWith(OnePool(Pool1Cfg(0, "wrr", "any", 1, 1, 1)))
    /\ [][NextProberLive]_vars
    /\ WF_vars(ProberRequest)
    /\ WF_vars(ProberRunForever(NoValue, TRUE))
    /\ \A t \in ThreadIds :
          /\ WF_vars(ThreadGet(t))
          /\ WF_vars(ThreadRunProbe(t, MonitorOutcome("returns", None)))

\* the guardian and its child processes; the guardian runs on, and a
\* process that was sent SIGKILL is gone after a while
GuardianRun ==
    \/ \E cmd \in { None, "ping", "stop", "status" } : ControlConnection(cmd)
    \/ \E exited \in SUBSET Processes : TerminateAttempt(exited)
    \/ HealthCheck
    \/ JoinProcesses

NextGuardian ==
    \/ GuardianRun
    \/ SigtermHandler
    \/ \E p \in Processes : ChildDies(p)
    \/ \E p \in Processes : ChildKilled(p)

SpecGuardian ==
    /\ InitBackend
    /\ [][NextGuardian]_vars
    /\ WF_vars(GuardianRun)
    /\ \A p \in Processes : WF_vars(ChildKilled(p))

----------------------------------------------------------------------------
(* Properties of the tracker (SpecTracker) *)

\* C1: a member that is UP or UNKNOWN becomes DOWN exactly in the step that
\* applies a failed probe result to it while its retries_left is 0, and that
\* result is exactly the (monitor.retries + 1)-th consecutive failed result
\* since its last success or since start: never an earlier one.
C1_HysteresisDown ==
    [][ \A id \in MemberIds(health_STATE) :
          LET member == MemberOf(health_STATE, id)
              retries == health_STATE.pools[id[1]].monitor.retries
              failed == \E reason \in FailReasons :
                           ProcessProbe(id, FALSE, reason)
          IN  member.status \in { UP, UNKNOWN } =>
                /\ (MemberOf(health_STATE', id).status = DOWN)
                       <=> (failed /\ member.retries_left = 0)
                /\ failed =>
                       ((member.retries_left = 0)
                          <=> (fails'[id] = retries + 1))
      ]_vars

\* with monitor.retries = 2, member s1 went UNKNOWN -> UP -> DOWN (two status
\* changes, s2 took no part) and is DOWN after exactly three failed results
C1_Witness ==
    /\ cfg.pools["p1"].monitor.retries = 2
    /\ MemberOf(health_STATE, <<"p1", 1>>).status = DOWN
    /\ MemberOf(health_STATE, <<"p1", 2>>).status = UNKNOWN
    /\ STATE_TIMESTAMP = 2
    /\ fails[<<"p1", 1>>] = 3

\* C2: a successful probe result makes the member UP in that very step,
\* whatever its status was, and sets retries_left to the pool's
\* monitor.retries; hence at all times a member that is not DOWN has as many
\* retries left as monitor.retries less the failed results since its last
\* success, and failures separated by a success do not add up.
C2_Recovery ==
    [][ \A id \in MemberIds(health_STATE) :
          LET after == MemberOf(health_STATE', id)
              retries == health_STATE.pools[id[1]].monitor.retries
          IN  /\ ProcessProbe(id, TRUE, "monitor passed") =>
                    /\ after.status = UP
                    /\ after.retries_left = retries
                    /\ fails'[id] = 0
              /\ after.status # DOWN =>
                    after.retries_left = retries - fails'[id]
      ]_vars

\* member s1 went UNKNOWN -> UP -> DOWN -> UP (three status changes, s2 took
\* no part): the last change is a single success applied to a DOWN member
C2_Witness ==
    /\ cfg.pools["p1"].monitor.retries > 0
    /\ MemberOf(health_STATE, <<"p1", 1>>).status = UP
    /\ MemberOf(health_STATE, <<"p1", 1>>).retries_left
          = cfg.pools["p1"].monitor.retries
    /\ MemberOf(health_STATE, <<"p1", 2>>).status = UNKNOWN
    /\ STATE_TIMESTAMP = 3

----------------------------------------------------------------------------
(* Properties of the health process and the state updater (Spec) *)

\* C3: the timestamp the state updater records is never newer than the
\* last member status change contained in the state it installed.
C3_NoNewTimestampWithOldData ==
    pdns_STATE # EmptyDict => pdns_STATE_TS <= pdns_STATE.timestamp

\* C4: no key of the shared memory is written while a member's status is
\* still undetermined.
C4_NoPublishBeforeConverged ==
    (\/ sm.ppdns_state # NoValue
     \/ sm.generic_state # NoValue
     \/ sm.state_timestamp # NoValue) => health_converged(health_STATE)

----------------------------------------------------------------------------
(* Properties of the lookup handler (SpecDns, SpecRR) *)

\* the pool that serves the globalname a request asks for, in state S
PoolOf(S, params) ==
    S.pools[S.globalnames[NormalizeQname(params.qname)].pool_name]

\* the request asks for a globalname of state S
KnownName(S, params) ==
    /\ "globalnames" \in DOMAIN S
    /\ NormalizeQname(params.qname) \in DOMAIN S.globalnames

\* the pool of the globalname is DOWN and its fallback is refuse
Refused(S, params) ==
    ~PoolOf(S, params).status /\ PoolOf(S, params).fallback = "refuse"

\* the step is the backend answering the lookup request it has read
LookupStep ==
    response'.request # NoValue /\ Lookup(response'.request.value)

\* C5: an A or ANY lookup of a globalname whose pool is not refusing is
\* answered from a table of the pool with exactly
\* N = min(table.num_unique_addrs, pool.max_addrs_returned) A records, so never
\* with more than num_unique_addrs, and with result false when N = 0; every
\* record carries the qname as sent in the request, the TTL of the globalname
\* and an address of the table's rotation.
C5_NumberOfRecords ==
    [][ LET params == response'.request.value IN
          (/\ LookupStep
           /\ params.qtype \in { "A", "ANY" }
           /\ KnownName(pdns_STATE, params)
           /\ ~Refused(pdns_STATE, params)) =>
          LET pool == PoolOf(pdns_STATE, params)
              table == pool.dist_tables[response'.table]
              N == Min(table.num_unique_addrs, pool.max_addrs_returned)
              ttl == pdns_STATE.globalnames[NormalizeQname(params.qname)].ttl
          IN  /\ response'.table \in DOMAIN pool.dist_tables
              /\ IF N = 0 THEN response'.result = ResultFalse
                 ELSE /\ Len(response'.result) = N
                      /\ N <= table.num_unique_addrs
                      /\ \A i \in 1..N :
                            /\ response'.result[i].qtype = "A"
                            /\ response'.result[i].qname = params.qname
                            /\ response'.result[i].ttl = ttl
                            /\ response'.result[i].content
                                  \in Range(table.rotation)
      ]_vars

\* a lookup of "A." of a pool with max_addrs_returned 3 and one address was
\* answered with one record carrying the qname as sent
C5_Witness ==
    /\ cfg.pools["p1"].max_addrs_returned = 3
    /\ response.request # NoValue
    /\ response.request.value.qname = <<"A", ".">>
    /\ response.request.value.qtype = "ANY"
    /\ Len(response.result) = 1
    /\ response.result[1].qname = <<"A", ".">>
    /\ response.result[1].ttl = 1

\* C6: a lookup that returns one address emits rotation[index] of its table
\* and advances index to (index + 1) mod L, L the length of the rotation; and
\* L consecutive A lookups of one globalname answered from one table with no
\* state swap in between return exactly the multiset of the rotation.
C6_WeightedRoundRobin ==
    [][ LET params == response'.request.value IN
          (/\ LookupStep
           /\ params.qtype = "A"
           /\ KnownName(pdns_STATE, params)
           /\ response'.result # ResultFalse) =>
          LET name == pdns_STATE.globalnames[NormalizeQname(params.qname)]
              before == pdns_STATE.pools[name.pool_name]
                            .dist_tables[response'.table]
              after == pdns_STATE'.pools[name.pool_name]
                            .dist_tables[response'.table]
              L == Len(before.rotation)
          IN  /\ Len(response'.result) = 1
              /\ response'.result[1].content
                    = before.rotation[before.index + 1]
              /\ after.index = (before.index + 1) % L
              /\ after.rotation = before.rotation
              /\ Len(window'.served) = L =>
                    SameMultiset(window'.served, before.rotation)
      ]_vars

\* three consecutive A lookups of "a" were answered from a _default rotation
\* of length 3 that holds one address twice
C6_Witness ==
    /\ window.table = "_default"
    /\ Len(window.served) = 3
    /\ Cardinality(Range(window.served)) = 2
    /\ Len(pdns_STATE.pools["p1"].dist_tables["_default"].rotation) = 3

\* the state updater installs the state it fetched
Swap == GetPpdnsState(TRUE) /\ sm.ppdns_state # NoValue

\* the index a swap must leave in the _default table of the pool
PreservedIndex(pool_name) ==
    LET old == pdns_STATE.pools[pool_name].dist_tables["_default"]
        new == pdns_STATE'.pools[pool_name].dist_tables["_default"]
    IN  new.index = IF old.index < Len(new.rotation) THEN old.index ELSE 0

C8_Refuse ==
    [][ LET params == response'.request.value IN
          (/\ LookupStep
           /\ params.qtype \in { "A", "ANY", "SOA" }
           /\ KnownName(pdns_STATE, params)
           /\ Refused(pdns_STATE, params)) =>
          /\ response'.result = ResultFalse
          /\ pdns_STATE' = pdns_STATE
      ]_vars

\* a SOA lookup of a globalname was answered with result false while its
\* pool is DOWN with fallback refuse
C8_Witness ==
    /\ response.request # NoValue
    /\ response.request.value.qtype = "SOA"
    /\ KnownName(pdns_STATE, response.request.value)
    /\ Refused(pdns_STATE, response.request.value)
    /\ response.result = ResultFalse

\* C9: a lookup whose qname, lowercased and without trailing dots, is not a
\* key of globalnames is answered with result false whatever its qtype and
\* leaves the state, so every index, as it was.
C9_UnknownName ==
    [][ LET params == response'.request.value IN
          (LookupStep /\ ~KnownName(pdns_STATE, params)) =>
          /\ response'.result = ResultFalse
          /\ pdns_STATE' = pdns_STATE
      ]_vars

\* an ANY lookup of "c" was answered with result false while the state is a
\* published one that answers lookups of "a" from a non-empty rotation
C9_Witness ==
    /\ response.request # NoValue
    /\ response.request.value.qname = <<"c">>
    /\ response.request.value.qtype = "ANY"
    /\ response.result = ResultFalse
    /\ "pools" \in DOMAIN pdns_STATE
    /\ pdns_STATE.pools["p1"].dist_tables["_default"].rotation # << >>

\* C10: an A or ANY lookup that is answered takes its records, starting at
\* the index, from the table of the client's region (the longest prefix match
\* of the remote address) if the pool is UP, its lb_method is twrr and it has
\* a table of that name, and from _default in every other case; only the
\* index of that table moves.
C10_TableChoice ==
    [][ LET params == response'.request.value IN
          (/\ LookupStep
           /\ params.qtype \in { "A", "ANY" }
           /\ KnownName(pdns_STATE, params)
           /\ response'.result # ResultFalse) =>
          LET name == pdns_STATE.globalnames[NormalizeQname(params.qname)]
              pool == pdns_STATE.pools[name.pool_name]
              region == get_region(params.remote, TOPOLOGY_MAP)
              table == IF /\ pool.status
                          /\ pool.lb_method = "twrr"
                          /\ region \in DOMAIN pool.dist_tables
                       THEN region ELSE "_default"
              L == Len(pool.dist_tables[table].rotation)
          IN  /\ response'.table = table
              /\ \A i \in 1..Len(response'.result) :
                    response'.result[i].content =
                      pool.dist_tables[table].rotation[
                        ((pool.dist_tables[table].index + i - 1) % L) + 1]
              /\ \A t \in DOMAIN pool.dist_tables \ { table } :
                    pdns_STATE'.pools[name.pool_name].dist_tables[t]
                      = pool.dist_tables[t]
      ]_vars

\* a client of region eu was answered from the table eu of a twrr pool
\* whose _default rotation holds a second address
C10_Witness ==
    /\ response.request # NoValue
    /\ response.request.value.remote = 0
    /\ response.table = "eu"
    /\ Len(response.result) = 1
    /\ response.result[1].content = 1
    /\ "pools" \in DOMAIN pdns_STATE
    /\ Range(pdns_STATE.pools["p1"].dist_tables["_default"].rotation)
          = { 1, 2 }

\* C11: a lookup with qtype AAAA of a globalname is answered as the same
\* lookup with qtype A is: with records whenever that one is.
C11_AAAAAnswered ==
    [][ LET params == response'.request.value IN
          (/\ LookupStep
           /\ params.qtype = "AAAA"
           /\ KnownName(pdns_STATE, params)) =>
          LET as_A == do_lookup(pdns_STATE, [ params EXCEPT !.qtype = "A" ])
          IN  /\ Len(response'.result) = Len(as_A.result)
              /\ pdns_STATE' = as_A.state
      ]_vars

----------------------------------------------------------------------------
(* Properties of the backend loop and the state updater (SpecBackend) *)

\* the step is the backend loop reading a line
LineStep == loop'.lines = loop.lines + 1

\* the line the step reads
LineRead == loop'.request.value

\* the step answers the line it reads with one response of result false
\* and the loop goes on
AnsweredFalse ==
    /\ loop'.responses = loop.responses + 1
    /\ loop'.result = "False"
    /\ loop'.running

\* C12: a line that is not JSON is answered with one response of result
\* false, and the loop goes on reading.
C12_UnparseableLine ==
    [][ (LineStep /\ LineRead.kind = "text") => AnsweredFalse ]_vars

\* the line names a method that is not implemented, or one whose handler
\* raises: a call without parameters, or a lookup while there is no state
UnknownOrRaising(line) ==
    /\ line.kind = "json"
    /\ line.method # None
    /\ \/ line.method \notin Implemented
       \/ line.parameters = NoValue
       \/ line.method = "lookup" /\ pdns_STATE = EmptyDict

\* C13: a request for a method that is not implemented, or whose handler
\* raises, is answered with exactly one response of result false and the
\* loop goes on; the loop ends only when it reads an empty line.
C13_OneReplyAndEndOnEmptyLine ==
    [][ LineStep =>
          /\ UnknownOrRaising(LineRead) => AnsweredFalse
          /\ ~loop'.running => LineRead.kind = "empty"
      ]_vars

\* C20: when a read of the state updater returns nothing, the active
\* state with its indexes and the recorded timestamp stay as they are, so
\* that a lookup is answered from them as before the read.
C20_ReadFailure ==
    [][ (GetStateTimestamp(FALSE) \/ GetPpdnsState(FALSE)) =>
          /\ pdns_STATE' = pdns_STATE
          /\ pdns_STATE_TS' = pdns_STATE_TS
          /\ \A line \in Lines :
                (line.method = "lookup" /\ line.parameters # NoValue) =>
                  do_lookup(pdns_STATE', line.parameters.value)
                    = do_lookup(pdns_STATE, line.parameters.value)
      ]_vars

\* the read of the distribution key failed after the timestamp key showed a
\* newer state, and the last line was a lookup answered with a record from
\* the state that stayed active
C20_Witness ==
    /\ read_failed
    /\ updater.pc = "get_timestamp"
    /\ pdns_STATE # EmptyDict
    /\ sm.state_timestamp # NoValue
    /\ sm.state_timestamp.value > pdns_STATE_TS
    /\ pdns_STATE.timestamp = pdns_STATE_TS
    /\ loop.result = "records"
    /\ response.result[1].content
          \in Range(pdns_STATE.pools["p1"].dist_tables["_default"].rotation)

----------------------------------------------------------------------------
(* Properties of the distribution form of the state (SpecDist); the health
   state changes only together with a publish, so the published form is a
   distribution form of the current health state *)

Published == sm.ppdns_state # NoValue

\* the distribution form of the pool as published
Emitted(pool_name) == sm.ppdns_state.value.pools[pool_name]

\* the IPs of the members of the pool that are UP with a weight above 0;
\* those of them in the given region
Serving(pool) ==
    { pool.members[i].ip : i \in { k \in 1..Len(pool.members) :
          pool.members[k].status = UP /\ pool.members[k].weight > 0 } }

ServingRegion(pool, region) ==
    { pool.members[i].ip : i \in { k \in 1..Len(pool.members) :
          /\ pool.members[k].status = UP
          /\ pool.members[k].weight > 0
          /\ pool.members[k].region = region } }

\* C14: the IP of a member of weight 0 is in the rotation of no table of
\* its pool, whatever the statuses, the lb_method and the fallback are.
C14_DisabledMemberNeverEmitted ==
    Published =>
      \A id \in MemberIds(health_STATE) :
        MemberOf(health_STATE, id).weight = 0 =>
          \A t \in DOMAIN Emitted(id[1]).dist_tables :
            MemberOf(health_STATE, id).ip
              \notin Range(Emitted(id[1]).dist_tables[t].rotation)

\* a twrr pool that is UP was published while its member s2 of weight 0
\* is UP and s3, of the same region, fills the table of that region
C14_Witness ==
    /\ Published
    /\ Emitted("p1").lb_method = "twrr"
    /\ Emitted("p1").status
    /\ MemberOf(health_STATE, <<"p1", 2>>).weight = 0
    /\ MemberOf(health_STATE, <<"p1", 2>>).status = UP
    /\ "us" \in DOMAIN Emitted("p1").dist_tables

\* C15: for a twrr pool that is UP, the rotation of every regional table R
\* holds only IPs of members that are UP, have a weight above 0 and region
\* R, and there is such a member for every regional table emitted.
C15_RegionalTables ==
    Published =>
      \A n \in DOMAIN health_STATE.pools :
        (Emitted(n).lb_method = "twrr" /\ Emitted(n).status) =>
          \A R \in DOMAIN Emitted(n).dist_tables \ { "_default" } :
            /\ ServingRegion(health_STATE.pools[n], R) # {}
            /\ Range(Emitted(n).dist_tables[R].rotation)
                  \subseteq ServingRegion(health_STATE.pools[n], R)

\* of the two members of region us one is UP and one is DOWN, and no
\* member of region eu is UP: the only regional table is us, with s2 alone
C15_Witness ==
    /\ Published
    /\ Emitted("p1").lb_method = "twrr"
    /\ MemberOf(health_STATE, <<"p1", 1>>).status = DOWN
    /\ MemberOf(health_STATE, <<"p1", 2>>).status = UP
    /\ MemberOf(health_STATE, <<"p1", 3>>).status = DOWN
    /\ MemberOf(health_STATE, <<"p1", 3>>).weight > 0
    /\ DOMAIN Emitted("p1").dist_tables = { "_default", "us" }
    /\ Emitted("p1").dist_tables["us"].rotation = << 2 >>

\* C16: in every emitted table num_unique_addrs is the number of distinct
\* IPs of the rotation, so it is 0 exactly when the rotation is empty.
C16_NumUniqueAddrs ==
    Published =>
      \A n \in DOMAIN health_STATE.pools :
        \A t \in DOMAIN Emitted(n).dist_tables :
          LET table == Emitted(n).dist_tables[t]
          IN  /\ table.num_unique_addrs = Cardinality(Range(table.rotation))
              /\ (table.num_unique_addrs = 0) <=> (table.rotation = << >>)

\* a DOWN pool with fallback any and weights 2, 0, 1: three entries, two
\* addresses
C16_Witness ==
    /\ Published
    /\ ~Emitted("p1").status
    /\ Emitted("p1").fallback = "any"
    /\ Len(Emitted("p1").dist_tables["_default"].rotation) = 3
    /\ Emitted("p1").dist_tables["_default"].num_unique_addrs = 2

\* C17: for a fogroup pool that is UP the _default rotation is the IP of
\* the first member, in configured order, that is UP with a weight above 0,
\* weight times, and nothing else: a later member is listed only while no
\* earlier one serves.
C17_FailoverGroup ==
    Published =>
      \A n \in DOMAIN health_STATE.pools :
        (Emitted(n).lb_method = "fogroup" /\ Emitted(n).status) =>
          LET pool == health_STATE.pools[n]
              first == CHOOSE i \in 1..Len(pool.members) :
                         /\ pool.members[i].ip \in Serving(pool)
                         /\ \A k \in 1..(i - 1) :
                               pool.members[k].ip \notin Serving(pool)
          IN  /\ Serving(pool) # {}
              /\ Emitted(n).dist_tables["_default"].rotation
                    = Repeat(pool.members[first].ip,
                             pool.members[first].weight)
              /\ Emitted(n).dist_tables["_default"].num_unique_addrs = 1

\* the first member went DOWN after being UP or after the others came up:
\* the second member, not the third, is the one listed
C17_Witness ==
    /\ Published
    /\ Emitted("p1").lb_method = "fogroup"
    /\ STATE_TIMESTAMP >= 2
    /\ MemberOf(health_STATE, <<"p1", 1>>).weight > 0
    /\ MemberOf(health_STATE, <<"p1", 1>>).status = DOWN
    /\ MemberOf(health_STATE, <<"p1", 2>>).status = UP
    /\ MemberOf(health_STATE, <<"p1", 3>>).status = UP
    /\ Emitted("p1").dist_tables["_default"].rotation = << 2 >>

\* C18: for a pool that is DOWN the _default rotation holds, if the
\* fallback is any, every member of a weight above 0 weight times whatever
\* its status is, and no other address; if the fallback is refuse it is
\* empty and num_unique_addrs is 0.
C18_PoolDown ==
    Published =>
      \A n \in DOMAIN health_STATE.pools :
        ~Emitted(n).status =>
          LET pool == health_STATE.pools[n]
              table == Emitted(n).dist_tables["_default"]
          IN  IF Emitted(n).fallback = "any"
              THEN /\ \A i \in 1..Len(pool.members) :
                        Count(table.rotation, pool.members[i].ip)
                          = pool.members[i].weight
                   /\ Range(table.rotation)
                        \subseteq { pool.members[i].ip :
                                      i \in 1..Len(pool.members) }
              ELSE table.rotation = << >> /\ table.num_unique_addrs = 0

\* a DOWN pool with fallback any whose members are DOWN, UP with weight 0
\* and still UNKNOWN: the first and the third are listed
C18_Witness ==
    /\ Published
    /\ ~Emitted("p1").status
    /\ Emitted("p1").fallback = "any"
    /\ MemberOf(health_STATE, <<"p1", 1>>).status = DOWN
    /\ MemberOf(health_STATE, <<"p1", 2>>).status = UP
    /\ MemberOf(health_STATE, <<"p1", 3>>).status = UNKNOWN
    /\ Range(Emitted("p1").dist_tables["_default"].rotation) = { 1, 3 }

\* C19: for a wrr or twrr pool that is UP the _default rotation holds
\* weight(m) copies of the IP of every member m that is UP with a weight
\* above 0 and nothing else, in some order: the members that serve and
\* their weights can be read back from the table.
C19_DefaultPopulation ==
    Published =>
      \A n \in DOMAIN health_STATE.pools :
        (Emitted(n).lb_method \in { "wrr", "twrr" } /\ Emitted(n).status) =>
          LET pool == health_STATE.pools[n]
              table == Emitted(n).dist_tables["_default"]
          IN  /\ \A i \in 1..Len(pool.members) :
                    Count(table.rotation, pool.members[i].ip)
                      = IF pool.members[i].ip \in Serving(pool)
                        THEN pool.members[i].weight ELSE 0
              /\ Range(table.rotation) = Serving(pool)

\* members s1 (weight 2) and s3 (weight 1) serve, and the shuffle put s3
\* first
C19_Witness ==
    /\ Published
    /\ Emitted("p1").lb_method = "wrr"
    /\ Emitted("p1").status
    /\ Emitted("p1").dist_tables["_default"].rotation = << 3, 1, 1 >>
    /\ MemberOf(health_STATE, <<"p1", 2>>).status = UP

----------------------------------------------------------------------------
(* Further properties of the tracker (SpecTracker) *)

\* the status of some member of the pool differs between the two states
StatusTransition(pool_name) ==
    \E i \in 1..Len(health_STATE.pools[pool_name].members) :
        health_STATE'.pools[pool_name].members[i].status
          # health_STATE.pools[pool_name].members[i].status

\* C22: once health_converged has been true it stays true, because no step
\* sets the status of a member back to UNKNOWN.
C22_ConvergenceMonotone ==
    [][ /\ \A id \in MemberIds(health_STATE) :
              MemberOf(health_STATE, id).status # UNKNOWN =>
                  MemberOf(health_STATE', id).status # UNKNOWN
        /\ health_converged(health_STATE) => health_converged(health_STATE')
      ]_vars

\* both members were determined and a third status change followed; a new
\* probe of a determined member is outstanding
C22_Witness ==
    /\ health_converged(health_STATE)
    /\ STATE_TIMESTAMP = 3
    /\ MemberOf(health_STATE, <<"p1", 1>>).status = DOWN
    /\ MemberOf(health_STATE, <<"p1", 2>>).status = UP
    /\ probes[<<"p1", 1>>] > 0

\* C28: STATE_TIMESTAMP changes when and only when the status of a member
\* changes: a success applied to a member that is UP, a failure applied to
\* a member that is DOWN or that has retries left leave it unchanged, and
\* every other probe result (a status transition) sets it.
C28_TimestampIffStatusChange ==
    [][ /\ (STATE_TIMESTAMP' # STATE_TIMESTAMP)
              <=> (\E n \in DOMAIN health_STATE.pools : StatusTransition(n))
        /\ \A id \in MemberIds(health_STATE) :
              LET member == MemberOf(health_STATE, id)
              IN  /\ ProcessProbe(id, TRUE, "monitor passed") =>
                        ((STATE_TIMESTAMP' = STATE_TIMESTAMP)
                           <=> (member.status = UP))
                  /\ (\E reason \in FailReasons :
                          ProcessProbe(id, FALSE, reason)) =>
                        ((STATE_TIMESTAMP' = STATE_TIMESTAMP)
                           <=> (\/ member.status = DOWN
                                \/ member.retries_left > 0))
      ]_vars

\* member s1 went UP (one status change) and then failed once with retries
\* left: the timestamp is still that of the one change
C28_Witness ==
    /\ cfg.pools["p1"].monitor.retries = 2
    /\ MemberOf(health_STATE, <<"p1", 1>>).status = UP
    /\ MemberOf(health_STATE, <<"p1", 1>>).retries_left = 1
    /\ fails[<<"p1", 1>>] = 1
    /\ MemberOf(health_STATE, <<"p1", 2>>).status = UNKNOWN
    /\ STATE_TIMESTAMP = 1

\* C29: a failed probe result applied to a member that is DOWN changes
\* nothing: no field of the member, no field of its pool and not the state
\* timestamp.
C29_FailureOnDownIsNoOp ==
    [][ \A id \in MemberIds(health_STATE) :
          (/\ MemberOf(health_STATE, id).status = DOWN
           /\ \E reason \in FailReasons : ProcessProbe(id, FALSE, reason))
          => /\ health_STATE' = health_STATE
             /\ STATE_TIMESTAMP' = STATE_TIMESTAMP
      ]_vars

\* C30 as stated: after a member status transition pool.last_status is the
\* derived status of the pool, and last_status changes exactly in the steps
\* in which the derived status changes.
C30_LastStatusFlipsWithPoolStatus ==
    [][ \A n \in DOMAIN health_STATE.pools :
          LET before == health_STATE.pools[n]
              after == health_STATE'.pools[n]
          IN  /\ StatusTransition(n) =>
                    after.last_status = BoolStatus(PoolStatus(after))
              /\ (after.last_status # before.last_status)
                    <=> (PoolStatus(after) # PoolStatus(before))
      ]_vars

\* C30: the status of a pool is true exactly when a member of a weight
\* above 0 is UP; after a member status transition pool.last_status is that
\* derived status, and last_status changes exactly at a transition that
\* changes the derived status or is the first one applied in the pool
\* (last_status still None).
C30_LastStatus ==
    [][ \A n \in DOMAIN health_STATE.pools :
          LET before == health_STATE.pools[n]
              after == health_STATE'.pools[n]
          IN  /\ PoolStatus(before)
                    <=> (\E i \in 1..Len(before.members) :
                            /\ before.members[i].weight > 0
                            /\ before.members[i].status = UP)
              /\ StatusTransition(n) =>
                    after.last_status = BoolStatus(PoolStatus(after))
              /\ (after.last_status # before.last_status)
                    <=> (/\ StatusTransition(n)
                         /\ \/ PoolStatus(after) # PoolStatus(before)
                            \/ before.last_status = UNKNOWN)
      ]_vars

\* the pool went UP with s1 and DOWN again when s1, its last UP member of a
\* weight above 0, went DOWN; s2, of weight 0, is UP
C30_Witness ==
    /\ MemberOf(health_STATE, <<"p1", 2>>).weight = 0
    /\ MemberOf(health_STATE, <<"p1", 2>>).status = UP
    /\ MemberOf(health_STATE, <<"p1", 1>>).status = DOWN
    /\ health_STATE.pools["p1"].last_status = DOWN
    /\ STATE_TIMESTAMP = 3

\* C27: under fair scheduling, every probe requested yielding a response,
\* every member eventually leaves UNKNOWN and never returns to it, so
\* health_converged eventually becomes true.
C27_EventuallyConverged ==
    /\ \A id \in TrackerMembers :
          <>[](MemberOf(health_STATE, id).status # UNKNOWN)
    /\ <>health_converged(health_STATE)

\* with monitor.retries = 2 member s1 left UNKNOWN by three failed results
\* in a row and s2 by its first success
C27_Witness ==
    /\ cfg.pools["p1"].monitor.retries = 2
    /\ health_converged(health_STATE)
    /\ MemberOf(health_STATE, <<"p1", 1>>).status = DOWN
    /\ MemberOf(health_STATE, <<"p1", 1>>).retries_left = 0
    /\ MemberOf(health_STATE, <<"p1", 2>>).status = UP
    /\ STATE_TIMESTAMP = 2

----------------------------------------------------------------------------
(* Properties of the state pusher (SpecPusher, SpecPusherLive) *)

\* C21: pushes_ok counts the successful pushes of the cycle; state_ts is
\* set only at the end of a cycle in which all three pushes succeeded, and
\* after any other cycle it is unchanged and still differs from
\* STATE_TIMESTAMP, so that run calls push_states again.
C21_LastPushedTimestamp ==
    [][ /\ PushStates => pusher'.pushes_ok = 0
        /\ \A ok \in BOOLEAN :
              (SetPpdnsState(ok) \/ SetGenericState(ok)
                 \/ SetStateTimestamp(ok)) =>
                pusher'.pushes_ok
                  = pusher.pushes_ok + (IF ok THEN 1 ELSE 0)
        /\ pusher'.state_ts # pusher.state_ts =>
              (PushesDone /\ pusher.pushes_ok = 3)
        /\ (PushesDone /\ pusher.pushes_ok < 3) =>
              /\ pusher'.state_ts = pusher.state_ts
              /\ pusher'.pc = "run"
              /\ STATE_TIMESTAMP' # pusher'.state_ts
      ]_vars

\* a cycle is over in which the first two pushes succeeded and the push of
\* the timestamp failed: state_ts is still 0
C21_Witness ==
    /\ pusher.pc = "run"
    /\ pusher.state_ts = 0
    /\ STATE_TIMESTAMP > 0
    /\ sm.ppdns_state # NoValue
    /\ sm.generic_state # NoValue
    /\ sm.state_timestamp = NoValue

\* the steps of a cycle of the state pusher, in order
PusherOrder ==
    { << "run", "set_ppdns_state" >>,
      << "set_ppdns_state", "set_generic_state" >>,
      << "set_generic_state", "set_state_timestamp" >>,
      << "set_state_timestamp", "pushes_done" >>,
      << "pushes_done", "run" >> }

\* C25: in a cycle both forms are generated from one state under
\* STATE_LOCK, and then the three keys are pushed in the order distribution
\* form, generic form, timestamp: each key is written only by its own step,
\* and the timestamp never before the other two pushes of the cycle were
\* issued.
C25_PushOrder ==
    [][ /\ pusher'.pc # pusher.pc =>
              << pusher.pc, pusher'.pc >> \in PusherOrder
        /\ PushStates =>
              /\ pusher'.dist_form
                    \in to_dist_dict(health_STATE, STATE_TIMESTAMP)
              /\ pusher'.generic_form = instance_to_dict(health_STATE)
              /\ UNCHANGED <<health_STATE, STATE_TIMESTAMP, sm>>
        /\ sm'.ppdns_state # sm.ppdns_state =>
              (pusher.pc = "set_ppdns_state" /\ SetPpdnsState(TRUE))
        /\ sm'.generic_state # sm.generic_state =>
              (pusher.pc = "set_generic_state" /\ SetGenericState(TRUE))
        /\ sm'.state_timestamp # sm.state_timestamp =>
              (pusher.pc = "set_state_timestamp" /\ SetStateTimestamp(TRUE))
      ]_vars

\* the second cycle has pushed its two forms and is about to push the
\* timestamp, while the tracker, not held up by the pushes, has applied a
\* status change since the forms were generated
C25_Witness ==
    /\ pusher.pc = "set_state_timestamp"
    /\ pusher.pushes_ok = 2
    /\ sm.state_timestamp = Value(1)
    /\ sm.ppdns_state = Value(pusher.dist_form)
    /\ pusher.dist_form.timestamp = 2
    /\ STATE_TIMESTAMP = 3

\* C26: while every push succeeds, every member status change is
\* eventually followed by a distribution form in the shared memory that was
\* generated after it.
C26_NoStatusChangeLost ==
    \A t \in 1..MaxTime :
        (STATE_TIMESTAMP = t)
          ~> (/\ sm.ppdns_state # NoValue
              /\ sm.ppdns_state.value.timestamp >= t)

----------------------------------------------------------------------------
(* Properties of the prober threads (SpecProber) *)

\* C23: running a probe always ends with a definite result, status True
\* with "monitor passed" when the monitor returns, and status False with
\* the text of the exception when it raises MonitorFailed or anything else;
\* the thread puts that very probe on the response queue and goes on to get
\* the next request. A thread ends on a poison pill only.
C23_ProbeResult ==
    [][ \A t \in 1..MAX_PROBER_THREADS :
          /\ \A outcome \in MonitorOutcomes :
                ThreadRunProbe(t, outcome) =>
                  LET id == prober.threads[t].probe.value
                      n == Len(prober'.thread_responses)
                  IN  /\ prober'.threads[t].pc = "get"
                      /\ n = Len(prober.thread_responses) + 1
                      /\ SubSeq(prober'.thread_responses, 1, n - 1)
                            = prober.thread_responses
                      /\ prober'.thread_responses[n].pool_name = id[1]
                      /\ prober'.thread_responses[n].member_ip
                            = MemberOf(health_STATE, id).ip
                      /\ prober'.thread_responses[n].status
                            = (outcome.kind = "returns")
                      /\ prober'.thread_responses[n].status_reason
                            = IF outcome.kind = "returns"
                              THEN "monitor passed" ELSE outcome.text
          /\ (/\ prober'.threads[t].pc = "exited"
              /\ prober.threads[t].pc # "exited") =>
                (/\ prober.threads[t].pc = "get"
                 /\ Head(prober.thread_requests) = NoValue)
      ]_vars

\* a monitor crashed: the probe is on the response queue as failed with
\* the text of the exception, and the only thread started is running the
\* next probe
C23_Witness ==
    /\ \E i \in 1..Len(prober.thread_responses) :
          /\ ~prober.thread_responses[i].status
          /\ prober.thread_responses[i].status_reason = "crashed"
    /\ prober.listed = { 1 }
    /\ prober.threads[1].pc = "run"
    /\ prober.requests = 2

----------------------------------------------------------------------------
(* Properties of the guardian (SpecGuardian) *)

AllDead == \A p \in Processes : guardian.processes[p] = "dead"

----------------------------------------------------------------------------
(* Properties of the probe schedule (SpecSchedule, SpecScheduleLive) *)

\* a probe of member id is requested in the step
Requested(id) == probes'[id] > probes[id]

\* C31: a probe of a member is requested only if none was requested yet or
\* at least monitor.interval has elapsed since the last request, whatever
\* the status, the last result and retries_left of the member; processing a
\* result requests nothing and does not bring the next request nearer; and
\* every member is requested again and again.
C31_ProbeSchedule ==
    /\ [][ /\ \A id \in MemberIds(health_STATE) :
                Requested(id) =>
                  \/ MemberOf(health_STATE, id).last_probe_issued_time = None
                  \/ sched.elapsed[id] >= sched.interval
           /\ (\E id \in MemberIds(health_STATE) : probes'[id] < probes[id])
                => /\ sched' = sched
                   /\ \A id \in MemberIds(health_STATE) : ~Requested(id)
         ]_vars
    /\ \A id \in TrackerMembers : []<><<Requested(id)>>_vars

\* with interval 2, member s1 has used up its retries by failed results
\* and is requested again only as the interval has elapsed
C31_Witness ==
    /\ sched.interval = 2
    /\ cfg.pools["p1"].monitor.retries = 1
    /\ MemberOf(health_STATE, <<"p1", 1>>).status = DOWN
    /\ MemberOf(health_STATE, <<"p1", 1>>).status_reason = "timeout"
    /\ sched.elapsed[<<"p1", 1>>] = 0
    /\ probes[<<"p1", 1>>] = 1

\* the result of a probe of member id is processed in the step
Processed(id) == probes'[id] < probes[id]

\* C40: retries_left of every member stays within 0..monitor.retries of its
\* pool. It is monitor.retries as long as no probe was requested, after the
\* first request and after every passed result; it decreases only by one,
\* by a failed result applied to a member that is UP or UNKNOWN with
\* retries_left > 0, and it increases only to monitor.retries.
C40_RetriesLeftRange ==
    /\ [](\A id \in MemberIds(health_STATE) :
            LET member == MemberOf(health_STATE, id)
                retries == health_STATE.pools[id[1]].monitor.retries
            IN  /\ member.retries_left \in 0..retries
                /\ member.last_probe_issued_time = None
                      => member.retries_left = retries)
    /\ [][\A id \in MemberIds(health_STATE) :
            LET before == MemberOf(health_STATE, id)
                after == MemberOf(health_STATE', id)
                retries == health_STATE.pools[id[1]].monitor.retries
            IN  /\ after.retries_left < before.retries_left
                      => /\ Processed(id)
                         /\ after.status_reason = "timeout"
                         /\ before.status \in { UP, UNKNOWN }
                         /\ before.retries_left > 0
                         /\ after.retries_left = before.retries_left - 1
                /\ after.retries_left > before.retries_left
                      => /\ Processed(id)
                         /\ after.status_reason = "monitor passed"
                /\ (Processed(id) /\ after.status_reason = "monitor passed")
                      => after.retries_left = retries
                /\ (Requested(id) /\ before.last_probe_issued_time = None)
                      => after.retries_left = retries
         ]_vars

\* two probes of s1 are outstanding while a failed result has used up its
\* only retry: both results are still to be applied
C40_Witness ==
    /\ cfg.pools["p1"].monitor.retries = 1
    /\ probes[<<"p1", 1>>] = 2
    /\ MemberOf(health_STATE, <<"p1", 1>>).retries_left = 0
    /\ MemberOf(health_STATE, <<"p1", 1>>).status = UNKNOWN
    /\ fails[<<"p1", 1>>] = 1

----------------------------------------------------------------------------
(* Properties of the threads of the prober process (SpecProber) *)

\* the threads started in the step
Started ==
    { t \in ThreadIds : /\ prober.threads[t].pc = "unstarted"
                        /\ prober'.threads[t].pc = "get" }

\* C32: self._threads never holds more than MAX_PROBER_THREADS threads.
\* An iteration of the prober that reads a probe request starts one thread
\* if len(self._threads) - _THREADS_BUSY <= 0 and the limit is not reached,
\* and none otherwise; in each case the request is appended to the thread
\* requests queue.
C32_ThreadCeiling ==
    /\ [](/\ Cardinality(prober.listed) <= MAX_PROBER_THREADS
          /\ \A t \in ThreadIds :
                prober.threads[t].pc # "unstarted" <=> t \in prober.listed)
    /\ [][\A id \in MemberIds(health_STATE), cleanup \in BOOLEAN :
            ProberRun(Value(id), cleanup) =>
              LET n == Len(prober.thread_requests)
              IN  /\ Cardinality(Started) =
                        IF /\ Cardinality(prober.listed)
                                - prober.threads_busy <= 0
                           /\ Cardinality(prober.listed) < MAX_PROBER_THREADS
                        THEN 1 ELSE 0
                  /\ Len(prober'.thread_requests) >= n + 1
                  /\ SubSeq(prober'.thread_requests, 1, n + 1)
                        = Append(prober.thread_requests, Value(id))
         ]_vars

\* a request arrived while both threads were running probes: the limit
\* being reached no thread was started, and the request is on the queue
C32_Witness ==
    /\ Cardinality(prober.listed) = MAX_PROBER_THREADS
    /\ \A t \in prober.listed : prober.threads[t].pc = "run"
    /\ prober.threads_busy = MAX_PROBER_THREADS
    /\ Len(prober.thread_requests) = 1
    /\ Head(prober.thread_requests) # NoValue

\* the poison pills on a queue
Pills(q) == Cardinality({ i \in 1..Len(q) : q[i] = NoValue })

\* an iteration of the prober that runs the cleanup sends poison pills iff
\* the threads left after the join exceed self._max_busy_threads by the
\* threshold or more, and then as many as they exceed it, less spare
PillsSent(spare) ==
    \A request \in { NoValue } \union
                    { Value(id) : id \in MemberIds(health_STATE) } :
        ProberRun(request, TRUE) =>
          LET workers == Cardinality(prober'.listed)
              max_busy == IF prober.max_busy_threads < prober.threads_busy
                          THEN prober.threads_busy
                          ELSE prober.max_busy_threads
          IN  Pills(prober'.thread_requests) - Pills(prober.thread_requests)
                = IF workers - max_busy >= EXCESSIVE_THREADS_THRESHOLD
                  THEN workers - max_busy - spare ELSE 0

\* a thread that gets a poison pill exits: it runs no probe, puts no
\* response and leaves _THREADS_BUSY as it is
PillTaken ==
    \A t \in ThreadIds :
        (ThreadGet(t) /\ Head(prober.thread_requests) = NoValue) =>
          /\ prober'.threads[t] = [ pc |-> "exited", probe |-> NoValue ]
          /\ prober'.threads_busy = prober.threads_busy
          /\ prober'.thread_responses = prober.thread_responses
          /\ prober'.prober_responses = prober.prober_responses
          /\ \A u \in ThreadIds \ { t } :
                prober'.threads[u] = prober.threads[u]

\* C33 as stated: the cleanup sends workers - max_busy poison pills, one
\* for every thread above the maximum number of busy threads, if that
\* number reaches EXCESSIVE_THREADS_THRESHOLD and none otherwise, and a
\* thread that gets a pill exits without running a probe.
C33_PillPerExcessWorker == [][PillsSent(0) /\ PillTaken]_vars

\* C33, amended: the cleanup sends workers - max_busy - 1 poison pills, so
\* that one thread more than the maximum number of busy ones is kept.
C33_PoisonPills == [][PillsSent(1) /\ PillTaken]_vars

\* of two idle threads one got the poison pill of a cleanup and exited,
\* the other one waits for requests
C33_Witness ==
    /\ Cardinality(prober.listed) = 2
    /\ \E t \in prober.listed : prober.threads[t].pc = "exited"
    /\ \E t \in prober.listed : prober.threads[t].pc = "get"
    /\ prober.thread_requests = << >>
    /\ prober.threads_busy = 0

\* C34: every probe request the prober process read is in exactly one
\* place: on the thread requests queue, with one thread that runs it, on
\* the thread responses queue or on the prober responses queue. A step
\* moves at most one probe to the prober responses queue, the one at the
\* head of the thread responses queue, and never a poison pill.
C34_OneResponsePerRequest ==
    /\ [](/\ \A i \in 1..Len(prober.thread_responses) :
                prober.thread_responses[i] # NoValue
          /\ \A i \in 1..Len(prober.prober_responses) :
                prober.prober_responses[i] # NoValue
          /\ prober.requests =
                Len(prober.thread_requests) - Pills(prober.thread_requests)
                + prober.threads_busy
                + Len(prober.thread_responses)
                + Len(prober.prober_responses)
          /\ prober.threads_busy =
                Cardinality({ t \in ThreadIds :
                                prober.threads[t].pc = "run" }))
    /\ [][ /\ \A id \in MemberIds(health_STATE) :
                Waiting(prober', id) + Running(prober', id)
                  + Answered(prober'.thread_responses, id)
                  + Answered(prober'.prober_responses, id)
                = Waiting(prober, id) + Running(prober, id)
                  + Answered(prober.thread_responses, id)
                  + Answered(prober.prober_responses, id)
                  + IF \E cleanup \in BOOLEAN :
                          ProberRun(Value(id), cleanup)
                    THEN 1 ELSE 0
           /\ \/ prober'.prober_responses = prober.prober_responses
              \/ /\ prober.thread_responses # << >>
                 /\ prober'.prober_responses =
                       Append(prober.prober_responses,
                              Head(prober.thread_responses))
         ]_vars

\* all the requests read were answered, one response each, while a thread
\* took a poison pill and exited
C34_Witness ==
    /\ prober.requests = MaxProbes
    /\ Len(prober.prober_responses) = MaxProbes
    /\ prober.thread_requests = << >>
    /\ \E t \in ThreadIds : prober.threads[t].pc = "exited"

----------------------------------------------------------------------------
(* Properties of the prober process running for ever (SpecProberLive) *)

\* C35: a probe request the prober process has put on the thread requests
\* queue is eventually answered: its probe leaves the threads only as the
\* response put on the prober responses queue, and it does so eventually,
\* also after poison pills have ended every thread.
C35_EveryRequestAnswered ==
    /\ [][InProber(prober', <<"p1", 1>>) < InProber(prober, <<"p1", 1>>)
            => Answered(prober'.prober_responses, <<"p1", 1>>) = 1]_vars
    /\ (InProber(prober, <<"p1", 1>>) > 0)
          ~> (InProber(prober, <<"p1", 1>>) = 0)

\* a request is waiting while the poison pills of two cleanups have ended
\* both threads, which were not joined yet
C35_Witness ==
    /\ Waiting(prober, <<"p1", 1>>) = 1
    /\ Cardinality(prober.listed) = 2
    /\ \A t \in prober.listed : prober.threads[t].pc = "exited"

----------------------------------------------------------------------------
(* Properties of the distribution form and of the replies built from it *)

\* C39: in the _default table published for a pool that is UP, names has
\* the length of rotation and names[i] is the name of the member whose IP
\* is rotation[i], for every position i.
C39_NamesParallelToRotation ==
    Published =>
      \A n \in DOMAIN health_STATE.pools :
        Emitted(n).status =>
          LET table == Emitted(n).dist_tables["_default"]
              members == health_STATE.pools[n].members
          IN  /\ Len(table.names) = Len(table.rotation)
              /\ \A i \in 1..Len(table.rotation) :
                    \E k \in 1..Len(members) :
                        /\ members[k].ip = table.rotation[i]
                        /\ members[k].name = table.names[i]

\* C37: the A records of one reply carry pairwise distinct addresses.
C37_DistinctAddresses ==
    \A i, j \in 1..Len(response.result) :
        (/\ i # j
         /\ response.result[i].qtype = "A"
         /\ response.result[j].qtype = "A")
          => response.result[i].content # response.result[j].content

\* C36: in the state the distribution process answers from, the index of
\* every table of every pool is a position of its rotation, and 0 if the
\* rotation is empty.
C36_IndexInRange ==
    "pools" \in DOMAIN pdns_STATE =>
      \A n \in DOMAIN pdns_STATE.pools :
        \A t \in DOMAIN pdns_STATE.pools[n].dist_tables :
          LET table == pdns_STATE.pools[n].dist_tables[t]
          IN  IF table.rotation = << >> THEN table.index = 0
              ELSE table.index \in 0..(Len(table.rotation) - 1)

\* a lookup was answered with the address of s2, then s2 went DOWN and
\* the new state was installed: its rotation is shorter, and its index is
\* not the random one it was published with but the one the swap gave it
C36_Witness ==
    /\ "pools" \in DOMAIN pdns_STATE
    /\ pdns_STATE.timestamp = 2
    /\ sm.ppdns_state.value.timestamp = 2
    /\ pdns_STATE.pools["p1"].dist_tables["_default"].rotation = <<1, 1>>
    /\ pdns_STATE.pools["p1"].dist_tables["_default"].index = 0
    /\ sm.ppdns_state.value.pools["p1"].dist_tables["_default"].index = 1
    /\ response.request # NoValue
    /\ Len(response.result) = 1
    /\ response.result[1].content = 2

----------------------------------------------------------------------------
(* Lookups before and after the first state is installed (SpecBackend) *)

\* the line is a lookup request with its parameters
LookupLine(line) ==
    /\ line.kind = "json"
    /\ line.method = "lookup"
    /\ line.parameters # NoValue

\* C38: while the active state is still empty, a lookup is answered with
\* one response of result false, STATE_LOCK is free again, the state stays
\* empty and the loop goes on; once a state is installed, a lookup of a
\* globalname whose pool is UP is answered with records whose addresses
\* are in the rotation of the installed state, and a lookup of a name that
\* is no globalname with result false.
C38_LookupBeforeFirstState ==
    [][ (LineStep /\ LookupLine(LineRead)) =>
          LET params == LineRead.parameters.value
              qname == NormalizeQname(params.qname)
          IN  /\ loop'.running
              /\ ~loop'.locked
              /\ loop'.responses = loop.responses + 1
              /\ IF pdns_STATE = EmptyDict
                 THEN /\ loop'.result = "False"
                      /\ response'.result = ResultFalse
                      /\ pdns_STATE' = EmptyDict
                 ELSE IF qname \notin DOMAIN pdns_STATE.globalnames
                 THEN loop'.result = "False"
                 ELSE LET pool_name == pdns_STATE.globalnames[qname].pool_name
                          pool == pdns_STATE.pools[pool_name]
                      IN  pool.status =>
                            /\ loop'.result = "records"
                            /\ \A i \in 1..Len(response'.result) :
                                  response'.result[i].content \in
                                    Range(pool.dist_tables["_default"].rotation)
      ]_vars

\* the health process has published a state and the updater has seen its
\* timestamp, but no state was installed yet when the lookup of the
\* globalname a was answered with result false; the loop is still running
C38_Witness ==
    /\ pdns_STATE = EmptyDict
    /\ sm.ppdns_state # NoValue
    /\ updater.pc = "get_state"
    /\ loop.request # NoValue
    /\ LookupLine(loop.request.value)
    /\ NormalizeQname(loop.request.value.parameters.value.qname) = <<"a">>
    /\ loop.result = "False"
    /\ loop.running
    /\ ~loop.locked

====
